---- MODULE Spec2Model ----
(***************************************************************************)
(* The per-line pipeline of not-oblivion-xml:                              *)
(*   &str --TokenLine::try_from--> Line<Token>                             *)
(*        --ExprLine::try_from---> Line<Expr>                              *)
(* together with render_tokens, the indentation subroutine of the          *)
(* block-indent lexer, and the main of the sample that feeds a file to the *)
(* pipeline line by line.                                                  *)
(* Characters are one-character strings, text is a sequence of them.       *)
(***************************************************************************)
EXTENDS Integers, Sequences, FiniteSets, TLC

VARIABLES
    text,    \* the &str handed to ExprLine::try_from
    pc,      \* position inside the call
    sc,      \* locals of TokenLine::try_from (ch, line, buf, raw_tokens, ...)
    tokRes,  \* Result<TokenLine, TokenConversionFailure>
    rd,      \* locals of ExprLine::try_from(TokenLine) (token, tokens, resp)
    res,     \* Result<ExprLine, LineConversionFailure>
    out,     \* what the sample driver did with the result
    rt,      \* locals and output streams of render_tokens
    bl,      \* the indentation tracking of the block-indent lexer
    drv      \* locals and standard output of the sample's main

\* what a call of ExprLine::try_from leaves alone
aside == <<rt, bl, drv>>

vars == <<text, pc, sc, tokRes, rd, res, out, aside>>

(***************************************************************************)
(* Characters                                                              *)
(***************************************************************************)
Chars(str) == [i \in 1..Len(str) |-> SubSeq(str, i, i)]

COMMENT == "#"
BACKSLASH == "\\"
SPACE == " "
TAB == "\t"
COLON == ":"
PERIOD == "."
DOLLAR == "$"
EQUALS_SIGN == "="
LEFT_ANGLE == "<"
RIGHT_ANGLE == ">"
BANG == "!"
LEFT_SQUARE == "["
RIGHT_SQUARE == "]"
FORWARD_SLASH == "/"
ASTERISK == "*"
MINUS == "-"
PLUS == "+"
PERCENTAGE == "%"
SINGLE_QUOTE == "'"
DOUBLE_QUOTE == "\""

\* char::is_whitespace, on the characters the model feeds in
IsWhitespace(c) == c \in {SPACE, TAB}

RECURSIVE TrimEnd(_)
\* str::trim_end
TrimEnd(s) ==
    IF Len(s) > 0 /\ IsWhitespace(s[Len(s)])
    THEN TrimEnd(SubSeq(s, 1, Len(s) - 1))
    ELSE s

(***************************************************************************)
(* Tokens, expressions, errors, results                                    *)
(***************************************************************************)
Token(kind, op, s) == [kind |-> kind, op |-> op, s |-> s]
Token_Equals == Token("Equals", "", <<>>)
Token_LeftAngle == Token("LeftAngle", "", <<>>)
Token_RightAngle == Token("RightAngle", "", <<>>)
Token_Bang == Token("Bang", "", <<>>)
Token_Period == Token("Period", "", <<>>)
Token_Colon == Token("Colon", "", <<>>)
Token_Dollar == Token("Dollar", "", <<>>)
Token_Relational(op) == Token("Relational", op, <<>>)
Token_Arithmetic(op) == Token("Arithmetic", op, <<>>)
Token_String(s) == Token("String", "", s)
NoToken == Token("", "", <<>>)

\* Option<String>
None == [some |-> FALSE, v |-> <<>>]
Some(s) == [some |-> TRUE, v |-> s]

Expr(kind, op, a, b, arg, n) ==
    [kind |-> kind, op |-> op, a |-> a, b |-> b, arg |-> arg, n |-> n]
Expr_Attribute(key, val) == Expr("Attribute", "", key, val, None, 0)
Expr_Trait(src, arg, trait) == Expr("Trait", "", src, trait, arg, 0)
Expr_Int(n) == Expr("Int", "", <<>>, <<>>, None, n)
Expr_Colon == Expr("Colon", "", <<>>, <<>>, None, 0)
Expr_Arithmetic(op) == Expr("Arithmetic", op, <<>>, <<>>, None, 0)
Expr_Relational(op) == Expr("Relational", op, <<>>, <<>>, None, 0)
Expr_Raw(s) == Expr("Raw", "", s, <<>>, None, 0)

\* error values; wrap is "" until ExprLine::try_from(&str) wraps the error
Failure(wrap, name, token, msg) ==
    [wrap |-> wrap, name |-> name, token |-> token, msg |-> msg]
NoFailure == Failure("", "", NoToken, "")
NoTokensPresent == Failure("", "NoTokensPresent", NoToken, "")
InconsistentWhitespace == Failure("", "InconsistentWhitespace", NoToken, "")
UnexpectedEol(expected) == Failure("", "UnexpectedEol", NoToken, expected)
UnexpectedLastToken(t, m) == Failure("", "UnexpectedLastToken", t, m)
InvalidToken(t, m) == Failure("", "InvalidToken", t, m)
ToDo(t) == Failure("", "ToDo", t, "")
TokenFailure(e) == [e EXCEPT !.wrap = "TokenFailure"]
ExprFailure(e) == [e EXCEPT !.wrap = "ExprFailure"]

Line(ws, members) == [total_whitespace |-> ws, members |-> members]
Result(tag, line, err) == [tag |-> tag, line |-> line, err |-> err]
Ok(line) == Result("Ok", line, NoFailure)
Err(e) == Result("Err", Line(0, <<>>), e)
\* an arithmetic-overflow panic of a build with overflow checks
Panicked == Result("Panic", Line(0, <<>>), NoFailure)
Pending == Result("", Line(0, <<>>), NoFailure)

(***************************************************************************)
(* TokenLine::try_from(&str)                                               *)
(***************************************************************************)
U8_MAX == 255

\* the locals of the scanner
ScanLocals(ch, rest, wsch, lw, buf, toks) ==
    [ch |-> ch, rest |-> rest, whitespace_char |-> wsch,
     leading_whitespace |-> lw, buf |-> buf, raw_tokens |-> toks]
NoScan == ScanLocals("", <<>>, "", 0, <<>>, <<>>)

\* where a step of the scanner leaves it
Goto(to, s) == [to |-> to, s |-> s, err |-> NoFailure]
Fail(s, e) == [to |-> "err", s |-> s, err |-> e]

\* line.next() is Some
HasNext(s) == Len(s.rest) > 0
\* ch = line.next()
Advance(s) == [s EXCEPT !.ch = Head(s.rest), !.rest = Tail(s.rest)]

\* write_buf!
WriteBuf(s, c) == [s EXCEPT !.buf = Append(s.buf, c)]

\* a flush_buf! that pushes the buffer even when it is empty
FlushBuf_PushesEmptyBuffer(s, args) ==
    [s EXCEPT
        !.raw_tokens = Append(s.raw_tokens, Token_String(s.buf)) \o args,
        !.buf = <<>>]

\* flush_buf!(args)
FlushBuf(s, args) ==
    [s EXCEPT
        !.raw_tokens =
            (IF Len(s.buf) > 0
             THEN Append(s.raw_tokens, Token_String(s.buf))
             ELSE s.raw_tokens) \o args,
        !.buf = <<>>]

\* a start of the scanner that keeps the trailing whitespace
ScanBegin_Untrimmed(value) ==
    IF Len(value) = 0
    THEN Fail(NoScan, NoTokensPresent)
    ELSE Goto("leading",
              ScanLocals(Head(value), Tail(value), Head(value), 0, <<>>, <<>>))

\* let mut line = value.trim_end().chars(); let mut ch = next_ch_or!(..)
ScanBegin(value) ==
    LET line == TrimEnd(value) IN
    IF Len(line) = 0
    THEN Fail(NoScan, NoTokensPresent)
    ELSE Goto("leading",
              ScanLocals(Head(line), Tail(line), Head(line), 0, <<>>, <<>>))

\* a leading-whitespace loop that counts without comparing the characters
LeadingWhitespace_Unchecked(s, overflow_checks) ==
    IF ~IsWhitespace(s.ch) THEN Goto("outer", s)
    ELSE IF s.leading_whitespace + 1 > U8_MAX /\ overflow_checks
    THEN Goto("panic", s)
    ELSE LET t == [s EXCEPT !.leading_whitespace =
                        (s.leading_whitespace + 1) % (U8_MAX + 1)] IN
         IF HasNext(t) THEN Goto("leading", Advance(t))
         ELSE Fail(t, NoTokensPresent)

\* one test of `while ch.is_whitespace()` and, when it holds, the body
LeadingWhitespace(s, overflow_checks) ==
    IF ~IsWhitespace(s.ch) THEN Goto("outer", s)
    ELSE IF s.ch /= s.whitespace_char THEN Fail(s, InconsistentWhitespace)
    ELSE IF s.leading_whitespace + 1 > U8_MAX /\ overflow_checks
    THEN Goto("panic", s)
    ELSE LET t == [s EXCEPT !.leading_whitespace =
                        (s.leading_whitespace + 1) % (U8_MAX + 1)] IN
         IF HasNext(t) THEN Goto("leading", Advance(t))
         ELSE Fail(t, NoTokensPresent)

\* the `ch = next_ch_or!({ break })` that ends an iteration of 'outer
LoopTail(s) == IF HasNext(s) THEN Goto("outer", Advance(s)) ELSE Goto("flush", s)

\* a composite_token! that pushes the composite but leaves the `=` unread
CompositeToken_KeepsLookahead(s, default, type) ==
    IF ~HasNext(s)
    THEN LoopTail(FlushBuf(s, <<default>>))
    ELSE LET next_ch == Head(s.rest)
             n == [s EXCEPT !.rest = Tail(s.rest)]
         IN  CASE next_ch = EQUALS_SIGN -> LoopTail(FlushBuf(s, <<type>>))
               [] next_ch = BACKSLASH ->
                    LET f == WriteBuf(FlushBuf(n, <<default>>), BACKSLASH) IN
                    IF HasNext(f) THEN Goto("outer", Advance(f))
                    ELSE Goto("flush", f)
               [] OTHER ->
                    Goto("outer", [FlushBuf(n, <<default>>) EXCEPT !.ch = next_ch])

\* composite_token!($default, '=', $type), entered with s.ch the first character
CompositeToken(s, default, type) ==
    IF ~HasNext(s)
    THEN LoopTail(FlushBuf(s, <<default>>))
    ELSE LET next_ch == Head(s.rest)
             n == [s EXCEPT !.rest = Tail(s.rest)]
         IN  CASE next_ch = EQUALS_SIGN -> LoopTail(FlushBuf(n, <<type>>))
               [] next_ch = BACKSLASH ->
                    LET f == WriteBuf(FlushBuf(n, <<default>>), BACKSLASH) IN
                    IF HasNext(f) THEN Goto("outer", Advance(f))
                    ELSE Goto("flush", f)
               [] OTHER ->
                    Goto("outer", [FlushBuf(n, <<default>>) EXCEPT !.ch = next_ch])

RECURSIVE QuoteLoop_KeepsBackslash(_, _)
\* a quote loop that writes the backslash as well as the character after it
QuoteLoop_KeepsBackslash(s, quote) ==
    IF ~HasNext(s) THEN Fail(s, UnexpectedEol("closing quote"))
    ELSE LET a == Advance(s) IN
         IF a.ch = quote THEN LoopTail(a)
         ELSE IF a.ch = BACKSLASH
         THEN IF ~HasNext(a) THEN Fail(a, UnexpectedEol("char after backslash"))
              ELSE LET b == Advance(a) IN
                   QuoteLoop_KeepsBackslash(WriteBuf(WriteBuf(b, BACKSLASH), b.ch), quote)
         ELSE QuoteLoop_KeepsBackslash(WriteBuf(a, a.ch), quote)

RECURSIVE QuoteLoop_ClosingQuoteDelimits(_, _)
\* a quote loop that pushes the pending text at the closing quote
QuoteLoop_ClosingQuoteDelimits(s, quote) ==
    IF ~HasNext(s) THEN Fail(s, UnexpectedEol("closing quote"))
    ELSE LET a == Advance(s) IN
         IF a.ch = quote THEN LoopTail(FlushBuf(a, <<>>))
         ELSE IF a.ch = BACKSLASH
         THEN IF ~HasNext(a) THEN Fail(a, UnexpectedEol("char after backslash"))
              ELSE LET b == Advance(a) IN
                   QuoteLoop_ClosingQuoteDelimits(WriteBuf(b, b.ch), quote)
         ELSE QuoteLoop_ClosingQuoteDelimits(WriteBuf(a, a.ch), quote)

RECURSIVE QuoteLoop(_, _)
\* the loop that collects a quoted block, then the end of the iteration
QuoteLoop(s, quote) ==
    IF ~HasNext(s) THEN Fail(s, UnexpectedEol("closing quote"))
    ELSE LET a == Advance(s) IN
         IF a.ch = quote THEN LoopTail(a)
         ELSE IF a.ch = BACKSLASH
         THEN IF ~HasNext(a) THEN Fail(a, UnexpectedEol("char after backslash"))
              ELSE LET b == Advance(a) IN QuoteLoop(WriteBuf(b, b.ch), quote)
         ELSE QuoteLoop(WriteBuf(a, a.ch), quote)

\* the tokens of one character
SingleCharToken ==
    (COLON :> Token_Colon) @@ (PERIOD :> Token_Period)
    @@ (RIGHT_SQUARE :> Token_Arithmetic("CloseBracket"))
    @@ (LEFT_SQUARE :> Token_Arithmetic("OpenBracket"))
    @@ (FORWARD_SLASH :> Token_Arithmetic("Div"))
    @@ (ASTERISK :> Token_Arithmetic("Mult"))
    @@ (MINUS :> Token_Arithmetic("Sub"))
    @@ (PLUS :> Token_Arithmetic("Add"))
    @@ (PERCENTAGE :> Token_Arithmetic("Mod"))
    @@ (DOLLAR :> Token_Dollar)

\* `match ch { .. }` and the end of the iteration
MatchCh(s) ==
    CASE s.ch = BACKSLASH ->
            IF ~HasNext(s) THEN Fail(s, UnexpectedEol("char after backslash"))
            ELSE LET a == Advance(s) IN LoopTail(WriteBuf(a, a.ch))
      [] s.ch = COMMENT -> Goto("flush", s)
      [] s.ch \in DOMAIN SingleCharToken ->
            LoopTail(FlushBuf(s, <<SingleCharToken[s.ch]>>))
      [] s.ch = EQUALS_SIGN ->
            CompositeToken(s, Token_Equals, Token_Relational("EqualTo"))
      [] s.ch = LEFT_ANGLE ->
            CompositeToken(s, Token_LeftAngle, Token_Relational("LessThanEqual"))
      [] s.ch = RIGHT_ANGLE ->
            CompositeToken(s, Token_RightAngle, Token_Relational("GreaterThanEqual"))
      [] s.ch = BANG ->
            CompositeToken(s, Token_Bang, Token_Relational("NotEqual"))
      [] s.ch \in {SINGLE_QUOTE, DOUBLE_QUOTE} -> QuoteLoop(s, s.ch)
      [] OTHER -> LoopTail(WriteBuf(s, s.ch))

\* one iteration of 'outer
OuterLoop(s) ==
    IF IsWhitespace(s.ch)
    THEN LET f == FlushBuf(s, <<>>) IN
         IF HasNext(f) THEN MatchCh(Advance(f)) ELSE Goto("flush", f)
    ELSE MatchCh(s)

\* an end of the scanner that returns the line whatever its length
ScanEnd_ReturnsEmptyLine(s) ==
    LET f == FlushBuf(s, <<>>) IN Ok(Line(f.leading_whitespace, f.raw_tokens))

\* the flush_buf!() after the loop and `match tokens.len()`
ScanEnd(s) ==
    LET f == FlushBuf(s, <<>>) IN
    IF Len(f.raw_tokens) = 0 THEN Err(NoTokensPresent)
    ELSE Ok(Line(f.leading_whitespace, f.raw_tokens))

RECURSIVE RunScan(_, _)
\* the scanner from where a step left it to its return
RunScan(o, overflow_checks) ==
    CASE o.to = "leading" -> RunScan(LeadingWhitespace(o.s, overflow_checks), overflow_checks)
      [] o.to = "outer" -> RunScan(OuterLoop(o.s), overflow_checks)
      [] o.to = "flush" -> ScanEnd(o.s)
      [] o.to = "panic" -> Panicked
      [] OTHER -> Err(o.err)

\* TokenLine::try_from(value), whole
TokenLine_try_from(value, overflow_checks) ==
    RunScan(ScanBegin(value), overflow_checks)

(***************************************************************************)
(* ExprLine::try_from(TokenLine)                                           *)
(***************************************************************************)
U16_MAX == 65535

Digits == Chars("0123456789")
IsDigit(c) == \E i \in 1..10 : Digits[i] = c
DigitValue(c) == (CHOOSE i \in 1..10 : Digits[i] = c) - 1

RECURSIVE ParseDigits(_, _)
\* the digit loop of u16::from_str: checked_mul(10) then checked_add(digit);
\* -1 stands for Err (InvalidDigit or PosOverflow)
ParseDigits(digits, acc) ==
    IF Len(digits) = 0 THEN acc
    ELSE IF ~IsDigit(Head(digits)) THEN -1
    ELSE LET v == acc * 10 + DigitValue(Head(digits)) IN
         IF v > U16_MAX THEN -1 ELSE ParseDigits(Tail(digits), v)

\* s.parse::<u16>(): -1 stands for Err
ParseU16(s) ==
    IF Len(s) = 0 THEN -1
    ELSE IF Head(s) \in {PLUS, MINUS} /\ Len(s) = 1 THEN -1
    ELSE IF Head(s) = PLUS THEN ParseDigits(Tail(s), 0)
    ELSE ParseDigits(s, 0)

RECURSIVE WrappingDigits(_, _)
\* a digit loop with wrapping_mul and wrapping_add; -1 stands for InvalidDigit
WrappingDigits(digits, acc) ==
    IF Len(digits) = 0 THEN acc
    ELSE IF ~IsDigit(Head(digits)) THEN -1
    ELSE WrappingDigits(Tail(digits), (acc * 10 + DigitValue(Head(digits))) % (U16_MAX + 1))

\* an Int-or-Raw choice whose integer wraps around at 16 bits
IntOrRaw_Wrapping(s) ==
    LET d == IF Len(s) > 1 /\ Head(s) = PLUS THEN Tail(s) ELSE s IN
    IF Len(s) > 0 /\ WrappingDigits(d, 0) >= 0
    THEN Expr_Int(WrappingDigits(d, 0)) ELSE Expr_Raw(s)

\* match s.parse() { Ok(n) => Int(n), Err(_) => Raw(s) }
IntOrRaw(s) == IF ParseU16(s) >= 0 THEN Expr_Int(ParseU16(s)) ELSE Expr_Raw(s)

\* a conversion that confuses the two ordering operators
IntoRelationalOperator_Swapped(op) ==
    CASE op = "EqualTo" -> "EqualTo"
      [] op = "GreaterThanEqual" -> "LessThanEqual"
      [] op = "LessThanEqual" -> "GreaterThanEqual"
      [] op = "NotEqual" -> "NotEqual"

\* (&op).into(): CompositeRelationalOperator -> RelationalOperator
IntoRelationalOperator(op) ==
    CASE op = "EqualTo" -> "EqualTo"
      [] op = "GreaterThanEqual" -> "GreaterThanEqual"
      [] op = "LessThanEqual" -> "LessThanEqual"
      [] op = "NotEqual" -> "NotEqual"

\* the locals of the reducer: the token in hand, the rest of the iterator, resp.members
ReduceLocals(token, tokens, ws, members) ==
    [token |-> token, tokens |-> tokens, total_whitespace |-> ws, members |-> members]
NoReduce == ReduceLocals(NoToken, <<>>, 0, <<>>)

\* push!(expr) after k more tokens were taken, then `match tokens.next()`
PushAndNext(r, expr, k) ==
    LET left == SubSeq(r.tokens, k + 1, Len(r.tokens))
        pushed == [r EXCEPT !.members = Append(r.members, expr), !.tokens = left]
    IN  IF Len(left) > 0
        THEN Goto("reduce", [pushed EXCEPT !.token = Head(left), !.tokens = Tail(left)])
        ELSE Goto("reduced", pushed)

\* a String arm for which a missing value is the empty value
StringExpr_EmptyValue(r) ==
    LET t == r.tokens
        s == r.token.s
    IN  IF Len(t) = 0 THEN PushAndNext(r, IntOrRaw(s), 0)
        ELSE IF t[1] = Token_Equals
        THEN IF Len(t) < 2 THEN PushAndNext(r, Expr_Attribute(s, <<>>), 1)
             ELSE IF t[2].kind = "String"
             THEN PushAndNext(r, Expr_Attribute(s, t[2].s), 2)
             ELSE PushAndNext(r, Expr_Attribute(s, <<>>), 1)
        ELSE Goto("reduce",
                  [r EXCEPT !.members = Append(r.members, IntOrRaw(s)),
                            !.token = t[1], !.tokens = Tail(t)])

\* a String arm that builds the attribute but leaves the value in the stream
StringExpr_KeyOnly(r) ==
    LET t == r.tokens
        s == r.token.s
    IN  IF Len(t) = 0 THEN PushAndNext(r, IntOrRaw(s), 0)
        ELSE IF t[1] = Token_Equals
        THEN IF Len(t) < 2 THEN Fail(r, UnexpectedLastToken(Token_String(s), "string"))
             ELSE IF t[2].kind = "String"
             THEN PushAndNext(r, Expr_Attribute(s, t[2].s), 1)
             ELSE Fail(r, InvalidToken(t[2], "expected string after equals sign"))
        ELSE Goto("reduce",
                  [r EXCEPT !.members = Append(r.members, IntOrRaw(s)),
                            !.token = t[1], !.tokens = Tail(t)])

\* a String arm that takes the token it looked at and throws it away
StringExpr_DropsLookahead(r) ==
    LET t == r.tokens
        s == r.token.s
    IN  IF Len(t) = 0 THEN PushAndNext(r, IntOrRaw(s), 0)
        ELSE IF t[1] = Token_Equals
        THEN IF Len(t) < 2 THEN Fail(r, UnexpectedLastToken(Token_String(s), "string"))
             ELSE IF t[2].kind = "String"
             THEN PushAndNext(r, Expr_Attribute(s, t[2].s), 2)
             ELSE Fail(r, InvalidToken(t[2], "expected string after equals sign"))
        ELSE PushAndNext(r, IntOrRaw(s), 1)

\* Token::String(s) => match tokens.next() { .. }
StringExpr(r) ==
    LET t == r.tokens
        s == r.token.s
    IN  IF Len(t) = 0 THEN PushAndNext(r, IntOrRaw(s), 0)
        ELSE IF t[1] = Token_Equals
        THEN IF Len(t) < 2 THEN Fail(r, UnexpectedLastToken(Token_String(s), "string"))
             ELSE IF t[2].kind = "String"
             THEN PushAndNext(r, Expr_Attribute(s, t[2].s), 2)
             ELSE Fail(r, InvalidToken(t[2], "expected string after equals sign"))
        ELSE Goto("reduce",
                  [r EXCEPT !.members = Append(r.members, IntOrRaw(s)),
                            !.token = t[1], !.tokens = Tail(t)])

\* the trait name that closes `$src<arg>.trait`, the k tokens before it taken
TraitName(r, k, src, arg) ==
    LET t == r.tokens IN
    IF Len(t) < k + 1 THEN Fail(r, UnexpectedLastToken(r.token, "string"))
    ELSE IF t[k + 1].kind = "String"
    THEN PushAndNext(r, Expr_Trait(src, arg, t[k + 1].s), k + 1)
    ELSE Fail(r, InvalidToken(t[k + 1], "expected a string"))

\* a Dollar arm for which `<>` is the same as no argument at all
DollarExpr_EmptyArgIsNone(r) ==
    LET t == r.tokens
        n == Len(r.tokens)
        token == r.token
    IN  IF n < 1 THEN Fail(r, UnexpectedLastToken(token, "string literal"))
        ELSE IF t[1].kind /= "String" THEN Fail(r, InvalidToken(t[1], "expected a string"))
        ELSE IF n < 2 THEN Fail(r, UnexpectedLastToken(token, "period"))
        ELSE IF t[2] = Token_LeftAngle
        THEN IF n < 3
             THEN Fail(r, UnexpectedLastToken(token, "string or right angle bracket"))
             ELSE IF t[3].kind = "String"
             THEN IF n < 4
                  THEN Fail(r, UnexpectedLastToken(token, "right angle bracket"))
                  ELSE IF t[4] = Token_RightAngle
                  THEN IF n < 5 THEN Fail(r, InvalidToken(token, "period"))
                       ELSE IF t[5] = Token_Period
                       THEN TraitName(r, 5, t[1].s, Some(t[3].s))
                       ELSE Fail(r, InvalidToken(t[5], "expected a period"))
                  ELSE Fail(r, InvalidToken(t[4], "expected a right angle bracket"))
             ELSE IF t[3] = Token_RightAngle
             THEN IF n < 4 THEN Fail(r, UnexpectedLastToken(token, "period"))
                  ELSE IF t[4] = Token_Period
                  THEN TraitName(r, 4, t[1].s, None)
                  ELSE Fail(r, InvalidToken(t[4], "expected a period"))
             ELSE Fail(r, InvalidToken(t[3], "expected a string or right angle bracket"))
        ELSE IF t[2] = Token_Period THEN TraitName(r, 2, t[1].s, None)
        ELSE Fail(r, InvalidToken(t[2], "expected a period"))

\* Token::Dollar => { .. }
DollarExpr(r) ==
    LET t == r.tokens
        n == Len(r.tokens)
        token == r.token
    IN  IF n < 1 THEN Fail(r, UnexpectedLastToken(token, "string literal"))
        ELSE IF t[1].kind /= "String" THEN Fail(r, InvalidToken(t[1], "expected a string"))
        ELSE IF n < 2 THEN Fail(r, UnexpectedLastToken(token, "period"))
        ELSE IF t[2] = Token_LeftAngle
        THEN IF n < 3
             THEN Fail(r, UnexpectedLastToken(token, "string or right angle bracket"))
             ELSE IF t[3].kind = "String"
             THEN IF n < 4
                  THEN Fail(r, UnexpectedLastToken(token, "right angle bracket"))
                  ELSE IF t[4] = Token_RightAngle
                  THEN IF n < 5 THEN Fail(r, InvalidToken(token, "period"))
                       ELSE IF t[5] = Token_Period
                       THEN TraitName(r, 5, t[1].s, Some(t[3].s))
                       ELSE Fail(r, InvalidToken(t[5], "expected a period"))
                  ELSE Fail(r, InvalidToken(t[4], "expected a right angle bracket"))
             ELSE IF t[3] = Token_RightAngle
             THEN IF n < 4 THEN Fail(r, UnexpectedLastToken(token, "period"))
                  ELSE IF t[4] = Token_Period
                  THEN TraitName(r, 4, t[1].s, Some(<<>>))
                  ELSE Fail(r, InvalidToken(t[4], "expected a period"))
             ELSE Fail(r, InvalidToken(t[3], "expected a string or right angle bracket"))
        ELSE IF t[2] = Token_Period THEN TraitName(r, 2, t[1].s, None)
        ELSE Fail(r, InvalidToken(t[2], "expected a period"))

\* an iteration that lets a Bang through as raw text
ExprLoop_PermitsBang(r) ==
    LET token == r.token IN
    CASE token.kind \in {"Equals", "Period"} ->
            Fail(r, InvalidToken(token, "Incorrect token to start expression"))
      [] token.kind = "Bang" -> PushAndNext(r, Expr_Raw(<<BANG>>), 0)
      [] token.kind = "Colon" -> PushAndNext(r, Expr_Colon, 0)
      [] token.kind = "Relational" ->
            PushAndNext(r, Expr_Relational(IntoRelationalOperator(token.op)), 0)
      [] token.kind = "Arithmetic" -> PushAndNext(r, Expr_Arithmetic(token.op), 0)
      [] token.kind = "LeftAngle" -> PushAndNext(r, Expr_Relational("LessThan"), 0)
      [] token.kind = "RightAngle" -> PushAndNext(r, Expr_Relational("GreaterThan"), 0)
      [] token.kind = "String" -> StringExpr(r)
      [] token.kind = "Dollar" -> DollarExpr(r)

\* one iteration of 'expr_loop
ExprLoop(r) ==
    LET token == r.token IN
    CASE token.kind \in {"Equals", "Period"} ->
            Fail(r, InvalidToken(token, "Incorrect token to start expression"))
      [] token.kind = "Bang" -> Fail(r, ToDo(token))
      [] token.kind = "Colon" -> PushAndNext(r, Expr_Colon, 0)
      [] token.kind = "Relational" ->
            PushAndNext(r, Expr_Relational(IntoRelationalOperator(token.op)), 0)
      [] token.kind = "Arithmetic" -> PushAndNext(r, Expr_Arithmetic(token.op), 0)
      [] token.kind = "LeftAngle" -> PushAndNext(r, Expr_Relational("LessThan"), 0)
      [] token.kind = "RightAngle" -> PushAndNext(r, Expr_Relational("GreaterThan"), 0)
      [] token.kind = "String" -> StringExpr(r)
      [] token.kind = "Dollar" -> DollarExpr(r)

\* the start of ExprLine::try_from(TokenLine): resp, tokens, the first token
ReduceBegin(value) ==
    IF Len(value.members) = 0
    THEN Goto("reduced", ReduceLocals(NoToken, <<>>, value.total_whitespace, <<>>))
    ELSE Goto("reduce",
              ReduceLocals(Head(value.members), Tail(value.members),
                           value.total_whitespace, <<>>))

\* Ok(resp)
ReduceEnd(r) == Ok(Line(r.total_whitespace, r.members))

RECURSIVE RunReduce(_)
\* the reducer from where a step left it to its return
RunReduce(o) ==
    CASE o.to = "reduce" -> RunReduce(ExprLoop(o.s))
      [] o.to = "reduced" -> ReduceEnd(o.s)
      [] OTHER -> Err(o.err)

\* ExprLine::try_from(TokenLine), whole
ExprLine_try_from_tokens(value) == RunReduce(ReduceBegin(value))

\* a wrapper that reports a scanner error as an error of the reducer
WrapTokenFailure_AsExprFailure(r) == Err(ExprFailure(r.err))

\* ExprLine::try_from(&str): the Err(e) => return Err(Error::TokenFailure(e)) arm
WrapTokenFailure(r) == Err(TokenFailure(r.err))
\* ExprLine::try_from(&str): the match on ExprLine::try_from(line)
WrapExprResult(r) == IF r.tag = "Ok" THEN r ELSE Err(ExprFailure(r.err))

\* ExprLine::try_from(&str), whole
ExprLine_try_from(value, overflow_checks) ==
    LET line == TokenLine_try_from(value, overflow_checks) IN
    CASE line.tag = "Panic" -> Panicked
      [] line.tag = "Err" -> WrapTokenFailure(line)
      [] OTHER -> WrapExprResult(ExprLine_try_from_tokens(line.line))

(***************************************************************************)
(* Display                                                                 *)
(***************************************************************************)
\* Display for ArithmeticOperator
ArithmeticOperator_fmt(op) ==
    CASE op = "OpenBracket" -> <<LEFT_SQUARE>>
      [] op = "CloseBracket" -> <<RIGHT_SQUARE>>
      [] op = "Div" -> <<FORWARD_SLASH>>
      [] op = "Mult" -> <<ASTERISK>>
      [] op = "Sub" -> <<MINUS>>
      [] op = "Add" -> <<PLUS>>
      [] op = "Mod" -> <<PERCENTAGE>>

\* Display for RelationalOperator
RelationalOperator_fmt(op) ==
    CASE op = "EqualTo" -> Chars("==")
      [] op = "GreaterThan" -> Chars(">")
      [] op = "GreaterThanEqual" -> Chars(">=")
      [] op = "LessThan" -> Chars("<")
      [] op = "LessThanEqual" -> Chars("<=")
      [] op = "NotEqual" -> Chars("!=")

\* Display for Token
Token_fmt(t) ==
    CASE t.kind = "Equals" -> <<EQUALS_SIGN>>
      [] t.kind = "LeftAngle" -> <<LEFT_ANGLE>>
      [] t.kind = "RightAngle" -> <<RIGHT_ANGLE>>
      [] t.kind = "Bang" -> <<BANG>>
      [] t.kind = "Period" -> <<PERIOD>>
      [] t.kind = "Colon" -> <<COLON>>
      [] t.kind = "Dollar" -> <<DOLLAR>>
      [] t.kind = "Relational" -> RelationalOperator_fmt(IntoRelationalOperator(t.op))
      [] t.kind = "Arithmetic" -> ArithmeticOperator_fmt(t.op)
      [] t.kind = "String" -> t.s

RECURSIVE U16_fmt(_)
\* Display for u16: decimal, no leading zeros
U16_fmt(n) ==
    IF n < 10 THEN <<Digits[n + 1]>>
    ELSE Append(U16_fmt(n \div 10), Digits[(n % 10) + 1])

\* Display for Expr
Expr_fmt(e) ==
    CASE e.kind = "Attribute" ->
            e.a \o <<EQUALS_SIGN, DOUBLE_QUOTE>> \o e.b \o <<DOUBLE_QUOTE>>
      [] e.kind = "Trait" /\ e.arg.some ->
            <<DOLLAR>> \o e.a \o <<LEFT_ANGLE>> \o e.arg.v \o <<RIGHT_ANGLE, PERIOD>> \o e.b
      [] e.kind = "Trait" /\ ~e.arg.some -> e.a \o <<PERIOD>> \o e.b
      [] e.kind = "Int" -> U16_fmt(e.n)
      [] e.kind = "Colon" -> <<COLON>>
      [] e.kind = "Arithmetic" -> ArithmeticOperator_fmt(e.op)
      [] e.kind = "Raw" -> e.a
      [] e.kind = "Relational" -> RelationalOperator_fmt(e.op)

\* for _ in 0..n { write!(f, " ") }
Indent(n) == [i \in 1..n |-> SPACE]

RECURSIVE JoinMembers(_)
\* the members, already displayed, with one space between them
JoinMembers(shown) ==
    IF Len(shown) = 0 THEN <<>>
    ELSE IF Len(shown) = 1 THEN shown[1]
    ELSE shown[1] \o <<SPACE>> \o JoinMembers(Tail(shown))

\* Display for Line<Token>
TokenLine_fmt(l) ==
    Indent(l.total_whitespace)
    \o JoinMembers([i \in 1..Len(l.members) |-> Token_fmt(l.members[i])])

\* Display for Line<Expr>
ExprLine_fmt(l) ==
    Indent(l.total_whitespace)
    \o JoinMembers([i \in 1..Len(l.members) |-> Expr_fmt(l.members[i])])

\* what one turn of the loop of the sample's main did: printed the line,
\* printed the error, or went on without printing
Output(kind, shown, err) == [kind |-> kind, text |-> shown, err |-> err]
NoOutput == Output("", <<>>, NoFailure)

(***************************************************************************)
(* The lines fed to ExprLine::try_from                                     *)
(***************************************************************************)
MaxLen == 3
MaxTokens == 3

SeqsUpTo(S, n) == UNION {[1..k -> S] : k \in 0..n}

\* every text of at most MaxLen characters over these
Alphabet ==
    {SPACE, TAB, COMMENT, BACKSLASH, EQUALS_SIGN, BANG, DOUBLE_QUOTE, PERIOD, "a", "1"}
BoundedTexts == SeqsUpTo(Alphabet, MaxLen)

\* one of = < > ! and what can follow it
CompositeChars == {EQUALS_SIGN, LEFT_ANGLE, RIGHT_ANGLE, BANG}
AllChars ==
    Alphabet \cup CompositeChars
    \cup {COLON, DOLLAR, SINGLE_QUOTE, MINUS, LEFT_SQUARE, PLUS}
OperatorTexts ==
    {<<x>> \o t : x \in CompositeChars,
                  t \in {<<>>} \cup {<<c>> : c \in AllChars}
                        \cup {<<c, d>> : c \in AllChars, d \in {EQUALS_SIGN, "a"}}}

RECURSIVE Escaped(_)
\* s with a backslash before each character
Escaped(s) == IF Len(s) = 0 THEN <<>> ELSE <<BACKSLASH, Head(s)>> \o Escaped(Tail(s))

RECURSIVE TokenText(_)
\* a text that scans to the tokens tl: one space between tokens, payloads escaped
TokenText(tl) ==
    IF Len(tl) = 0 THEN <<>>
    ELSE (IF Head(tl).kind = "String" THEN Escaped(Head(tl).s) ELSE Token_fmt(Head(tl)))
         \o (IF Len(tl) > 1 THEN <<SPACE>> ELSE <<>>) \o TokenText(Tail(tl))

\* every line of at most MaxTokens tokens over these
TokenVocabulary ==
    {Token_Equals, Token_Period, Token_Colon, Token_Dollar, Token_LeftAngle,
     Token_RightAngle, Token_Bang, Token_String(<<"k">>), Token_String(<<"7">>)}
BoundedTokenLines == SeqsUpTo(TokenVocabulary, MaxTokens) \ {<<>>}

\* the selector trait-tags, cut short anywhere, with a token before and after
SelectorForms ==
    {<<Token_Dollar, Token_String(<<"s">>), Token_LeftAngle, Token_String(<<"g">>),
       Token_RightAngle, Token_Period, Token_String(<<"t">>)>>,
     <<Token_Dollar, Token_String(<<"s">>), Token_LeftAngle,
       Token_RightAngle, Token_Period, Token_String(<<"t">>)>>,
     <<Token_Dollar, Token_String(<<"s">>), Token_Period, Token_String(<<"t">>)>>}
SelectorLines ==
    {pre \o cut \o suf :
        pre \in {<<>>, <<Token_Colon>>, <<Token_String(<<"k">>)>>},
        cut \in UNION {{SubSeq(f, 1, k) : k \in 1..Len(f)} : f \in SelectorForms},
        suf \in {<<>>, <<Token_Colon>>, <<Token_String(<<"7">>)>>, <<Token_Equals>>,
                 <<Token_RightAngle>>, <<Token_Dollar>>}}

\* attributes in a line, with what can stand around them
AttributeLines ==
    {pre \o <<Token_String(<<"k">>), Token_Equals, Token_String(<<"v">>)>> \o suf :
        pre \in SeqsUpTo(TokenVocabulary, 1)
                \cup {<<Token_String(<<"a">>), Token_Equals>>,
                      <<Token_Dollar, Token_String(<<"s">>), Token_Period>>},
        suf \in SeqsUpTo(TokenVocabulary, 1)}

TokenLines == BoundedTokenLines \cup SelectorLines \cup AttributeLines

\* the lines of src/tests/mod.rs and of the documented scenarios, and
\* payloads around the limits of u16
SampleLines ==
    {Chars("# This line should be empty."),
     Chars("rect name=\"container\": // this line should have an Attribute operator"),
     Chars("rect name=\"container\":"),
     Chars("me().width - 0\\.0 # This should contain a trait and escaped syntax."),
     Chars("me().width - 0\\.0 # comment"),
     Chars("me(). // This line should have a syntax error."),
     Chars("[ / * - + % ]"),
     Chars("1 == 2 > 3 >= 4 < 5 <= 6 != 7"),
     Chars("0 = 1 == 2 > 3 >= 4 < 5 <= 6 ! 7 != 8.0"),
     Chars("$me<child>.width-0.0"),
     Chars("$me<child>.width - 1"),
     Chars("  $me<>.width : $me.height"),
     Chars("0"), Chars("007"), Chars("65535"), Chars("65536"), Chars("65540"),
     Chars("99999"), Chars("655350"), Chars("\\+5"), Chars("\\-5"), Chars("\\+"),
     Chars("12a"), Chars("1  2"), Chars("a  b"), Chars("a  #c"), Chars(" \t# c"),
     Chars("\"12\""), Chars("'12'"), Chars("\"a b\""), Chars("k=\"12\""),
     Chars("a\"b c\"d"), Chars("key=\"\""), Chars("\"a\"'b'")}

\* a literal opened by either quote, over characters that matter inside one
MaxLiteral == 3
LiteralChars == {SINGLE_QUOTE, DOUBLE_QUOTE, BACKSLASH, SPACE, COMMENT, EQUALS_SIGN, "a"}
LiteralLines ==
    {<<q>> \o l : q \in {SINGLE_QUOTE, DOUBLE_QUOTE}, l \in SeqsUpTo(LiteralChars, MaxLiteral)}

\* indents around the largest count a u8 holds, before one character of content
IndentLines ==
    {[i \in 1..n |-> c] \o <<"a">> :
        n \in {U8_MAX - 1, U8_MAX, U8_MAX + 1, U8_MAX + 2}, c \in {SPACE, TAB}}

Texts == BoundedTexts \cup OperatorTexts \cup {TokenText(tl) : tl \in TokenLines}
         \cup SampleLines \cup LiteralLines \cup IndentLines

(***************************************************************************)
(* The tokens of the block-indent surface and render_tokens                *)
(***************************************************************************)
NEWLINE == "\n"
LEFT_BRACKET == "("
RIGHT_BRACKET == ")"

\* enum Operator
Operators ==
    {"Dollar", "Colon", "Period", "Bang", "NewLine", "LeftBracket", "RightBracket",
     "Slash", "Asterisk", "Minus", "Plus", "Mod", "EqualsSign", "LeftAngle",
     "RightAngle", "NotEqual", "EqualTo", "GreaterThanEqual", "LessThanEqual"}

\* enum Token of core::lexing
Lexing_Token(kind, op, s, n) == [kind |-> kind, op |-> op, s |-> s, n |-> n]
Lexing_Op(op) == Lexing_Token("Op", op, <<>>, 0)
Lexing_Indent == Lexing_Token("Indent", "", <<>>, 0)
Lexing_Dedent == Lexing_Token("Dedent", "", <<>>, 0)
Lexing_StringLiteral(s) == Lexing_Token("StringLiteral", "", s, 0)
Lexing_Number(n) == Lexing_Token("Number", "", <<>>, n)
Lexing_Identifier(s) == Lexing_Token("Identifier", "", s, 0)

\* Display for Operator
Operator_fmt(op) ==
    CASE op = "Dollar" -> <<DOLLAR>>
      [] op = "Colon" -> <<COLON>>
      [] op = "Period" -> <<PERIOD>>
      [] op = "Bang" -> <<BANG>>
      [] op = "NewLine" -> <<NEWLINE>>
      [] op = "LeftBracket" -> <<LEFT_BRACKET>>
      [] op = "RightBracket" -> <<RIGHT_BRACKET>>
      [] op = "Slash" -> <<FORWARD_SLASH>>
      [] op = "Asterisk" -> <<ASTERISK>>
      [] op = "Minus" -> <<MINUS>>
      [] op = "Plus" -> <<PLUS>>
      [] op = "Mod" -> <<PERCENTAGE>>
      [] op = "EqualsSign" -> <<EQUALS_SIGN>>
      [] op = "LeftAngle" -> <<LEFT_ANGLE>>
      [] op = "RightAngle" -> <<RIGHT_ANGLE>>
      [] op = "NotEqual" -> <<BANG, EQUALS_SIGN>>
      [] op = "EqualTo" -> <<EQUALS_SIGN, EQUALS_SIGN>>
      [] op = "GreaterThanEqual" -> <<RIGHT_ANGLE, EQUALS_SIGN>>
      [] op = "LessThanEqual" -> <<LEFT_ANGLE, EQUALS_SIGN>>

\* s.replace("\"", "\\\"")
RECURSIVE EscapeQuotes(_)
EscapeQuotes(s) ==
    IF s = <<>> THEN <<>>
    ELSE (IF Head(s) = DOUBLE_QUOTE THEN <<BACKSLASH, DOUBLE_QUOTE>> ELSE <<Head(s)>>)
         \o EscapeQuotes(Tail(s))

\* Display for Token of core::lexing; a Number is written in decimal
Lexing_Token_fmt(t) ==
    CASE t.kind = "Op" -> Operator_fmt(t.op)
      [] t.kind = "Indent" -> <<TAB>>
      [] t.kind = "Dedent" -> <<>>
      [] t.kind = "Identifier" -> t.s
      [] t.kind = "StringLiteral" -> <<DOUBLE_QUOTE>> \o EscapeQuotes(t.s) \o <<DOUBLE_QUOTE>>
      [] t.kind = "Number" -> U16_fmt(t.n)

\* the locals of render_tokens, the writer `buf` and the process's stdout;
\* `stream` is the argument as it was passed
RenderLocals(stream, tokens, indent_level, buf, stdout, at) ==
    [stream |-> stream, tokens |-> tokens, indent_level |-> indent_level,
     buf |-> buf, stdout |-> stdout, pc |-> at]
RenderIdle == RenderLocals(<<>>, <<>>, 0, <<>>, <<>>, "idle")

\* let mut indent_level = 0; let tokens = &mut tokens.into_iter().peekable();
RenderBegin(tokens) == RenderLocals(tokens, tokens, 0, <<>>, <<>>, "loop")

\* how many tokens at the head of the stream `while let Some(_) = next_if(..)` takes
RECURSIVE NextIfRun(_, _)
NextIfRun(tokens, t) ==
    IF tokens /= <<>> /\ Head(tokens) = t THEN 1 + NextIfRun(Tail(tokens), t) ELSE 0

\* one turn of `while let Some(token) = tokens.next()`
RenderTurn(r) ==
    LET token == Head(r.tokens)
        rest == Tail(r.tokens)
    IN  IF token = Lexing_Op("NewLine")
        THEN LET indents == NextIfRun(rest, Lexing_Indent)
                 afterIndents == SubSeq(rest, indents + 1, Len(rest))
                 dedents == NextIfRun(afterIndents, Lexing_Dedent)
                 indent_level == r.indent_level + indents - dedents
             IN  [r EXCEPT !.tokens = SubSeq(afterIndents, dedents + 1, Len(afterIndents)),
                           !.indent_level = indent_level,
                           !.buf = r.buf \o <<NEWLINE>> \o [i \in 1..indent_level |-> TAB]]
        ELSE [r EXCEPT !.tokens = rest,
                       !.stdout = r.stdout \o Lexing_Token_fmt(token) \o <<SPACE>>]

\* the final writeln!(buf)
RenderEnd(r) == [r EXCEPT !.buf = r.buf \o <<NEWLINE>>, !.pc = "returned"]

\* the token streams handed to render_tokens
MaxStream == 3
LexingVocabulary ==
    {Lexing_Op("NewLine"), Lexing_Indent, Lexing_Dedent, Lexing_Op("Colon"),
     Lexing_Op("NotEqual"), Lexing_Identifier(<<"a">>),
     Lexing_StringLiteral(<<"b", DOUBLE_QUOTE>>), Lexing_Number(12)}
TokenStreams == SeqsUpTo(LexingVocabulary, MaxStream)

(***************************************************************************)
(* The indentation subroutine of the block-indent lexer (lexing::parse_chars)*)
(* run once per line: at the start of the input and after every newline    *)
(***************************************************************************)
MaxLines == 3
MaxIndent == 3

\* a line as the subroutine sees it: the whitespace run `w` behind the newline
\* and whether anything but a comment or the end of the line follows it
SourceLine(w, content) == [w |-> w, content |-> content]

\* (current_level, indent_char, step), the lines still to read and the
\* Indent and Dedent tokens emitted so far
IndentState(lines, current_level, indent_char, step, emitted, at) ==
    [lines |-> lines, current_level |-> current_level, indent_char |-> indent_char,
     step |-> step, emitted |-> emitted, pc |-> at]
IndentIdle == IndentState(<<>>, 0, "", 0, <<>>, "idle")

\* current_level starts at zero, indent_char as unset
IndentBegin(lines) == IndentState(lines, 0, "", 0, <<>>, "line")

\* the subroutine on one line
IndentationSubroutine(b) ==
    LET line == Head(b.lines)
        w == line.w
        rest == [b EXCEPT !.lines = Tail(b.lines)]
        first == Len(w) > 0 /\ b.indent_char = ""
        indent_char == IF first THEN w[1] ELSE b.indent_char
        step == IF first THEN Len(w) ELSE b.step
        bound == [rest EXCEPT !.indent_char = indent_char, !.step = step]
    IN  IF ~line.content THEN rest
        ELSE IF \E i \in 1..Len(w) : w[i] /= indent_char
        THEN [rest EXCEPT !.pc = "InconsistentLeadingWhitespaceChars"]
        ELSE IF Len(w) > 0 /\ Len(w) % step /= 0
        THEN [rest EXCEPT !.pc = "InconsistentLeadingWhitespaceCount"]
        ELSE IF Len(w) > b.current_level
        THEN [bound EXCEPT !.emitted = Append(b.emitted, Lexing_Indent),
                           !.current_level = Len(w)]
        ELSE IF Len(w) = b.current_level THEN bound
        ELSE [bound EXCEPT !.emitted = b.emitted \o
                                [i \in 1..((b.current_level - Len(w)) \div step) |->
                                    Lexing_Dedent],
                           !.current_level = Len(w)]

\* the inputs: at most MaxLines lines, each indented by at most MaxIndent
\* spaces or tabs or by a mix of both, with or without content
IndentRuns ==
    {[i \in 1..n |-> c] : n \in 0..MaxIndent, c \in {SPACE, TAB}} \cup {<<SPACE, TAB>>}
SourceLines == {SourceLine(w, content) : w \in IndentRuns, content \in BOOLEAN}
BlockInputs == SeqsUpTo(SourceLines, MaxLines)

(***************************************************************************)
(* main of the sample: ExprLine::try_from on every line of the file        *)
(***************************************************************************)
MaxFile == 3

\* the lines not yet read, the lines read, the value of `line` after each call,
\* what println! wrote to standard output so far (one Output per line written),
\* and how the binary was built
MainLocals(lines, read, results, stdout, debug_assertions, overflow_checks, at) ==
    [lines |-> lines, read |-> read, results |-> results, stdout |-> stdout,
     debug_assertions |-> debug_assertions, overflow_checks |-> overflow_checks,
     pc |-> at]
DriverIdle == MainLocals(<<>>, <<>>, <<>>, <<>>, FALSE, FALSE, "idle")

\* `for line in string.split('\n')` is about to start
MainBegin(lines, debug_assertions, overflow_checks) ==
    MainLocals(lines, <<>>, <<>>, <<>>, debug_assertions, overflow_checks, "loop")

\* the `match line` of main: what it writes to standard output for one result
MainPrints_ReportsNoTokensPresent(line, debug_assertions) ==
    CASE line.tag = "Ok" /\ debug_assertions -> <<Output("debug", <<>>, NoFailure)>>
      [] line.tag = "Ok" /\ ~debug_assertions ->
            <<Output("line", ExprLine_fmt(line.line), NoFailure)>>
      [] OTHER -> <<Output("error", <<>>, line.err)>>

MainPrints(line, debug_assertions) ==
    CASE line.tag = "Ok" /\ debug_assertions -> <<Output("debug", <<>>, NoFailure)>>
      [] line.tag = "Ok" /\ ~debug_assertions ->
            <<Output("line", ExprLine_fmt(line.line), NoFailure)>>
      [] line.tag = "Err" /\ line.err = TokenFailure(NoTokensPresent) -> <<>>
      [] OTHER -> <<Output("error", <<>>, line.err)>>

\* the head of the for loop: the next line is taken and handed to the call
MainTakes(d) ==
    [d EXCEPT !.lines = Tail(d.lines), !.read = Append(d.read, Head(d.lines)),
              !.pc = "call"]

\* the body of the for loop once the call is over; a panic inside the call
\* has ended the process
MainMatches(d, line) ==
    IF line.tag = "Panic"
    THEN [d EXCEPT !.pc = "panicked"]
    ELSE [d EXCEPT !.results = Append(d.results, line),
                   !.stdout = d.stdout \o MainPrints(line, d.debug_assertions),
                   !.pc = "loop"]

\* Ok(()) after the loop
MainEnd(d) == [d EXCEPT !.pc = "returned"]

\* the overflow checks of the build the call runs in
OverflowChecks == IF drv.pc = "idle" THEN BOOLEAN ELSE {drv.overflow_checks}

\* the files: at most MaxFile lines, each one of these
FileLines ==
    {<<>>, Chars(" #c"), Chars("a=b"), Chars("="),
     [i \in 1..(U8_MAX + 1) |-> SPACE] \o <<"a">>}
Files == SeqsUpTo(FileLines, MaxFile)

(***************************************************************************)
(* ExprLine::try_from(&str), step by step                                  *)
(***************************************************************************)
Init ==
    /\ text \in Texts
    /\ pc = "start"
    /\ sc = NoScan
    /\ tokRes = Pending
    /\ rd = NoReduce
    /\ res = Pending
    /\ out = NoOutput
    /\ rt = RenderIdle
    /\ bl = IndentIdle
    /\ drv = DriverIdle

\* the scanner moves to where its step left it; an error or panic returns
ScanTo(o) ==
    /\ sc' = o.s
    /\ pc' = IF o.to \in {"err", "panic"} THEN "scanned" ELSE o.to
    /\ tokRes' = CASE o.to = "err" -> Err(o.err)
                   [] o.to = "panic" -> Panicked
                   [] OTHER -> tokRes
    /\ UNCHANGED <<text, rd, res, out, aside>>

Begin == pc = "start" /\ ScanTo(ScanBegin(text))

Leading ==
    /\ pc = "leading"
    /\ \E overflow_checks \in OverflowChecks : ScanTo(LeadingWhitespace(sc, overflow_checks))

Outer == pc = "outer" /\ ScanTo(OuterLoop(sc))

Flush ==
    /\ pc = "flush"
    /\ sc' = FlushBuf(sc, <<>>)
    /\ tokRes' = ScanEnd(sc)
    /\ pc' = "scanned"
    /\ UNCHANGED <<text, rd, res, out, aside>>

\* the reducer moves to where its step left it; an error returns, wrapped
ReduceTo(o) ==
    /\ rd' = o.s
    /\ pc' = IF o.to = "err" THEN "done" ELSE o.to
    /\ res' = IF o.to = "err" THEN WrapExprResult(Err(o.err)) ELSE res
    /\ UNCHANGED <<text, sc, tokRes, out, aside>>

\* the match on TokenLine::try_from(value) and the call of the reducer
Convert ==
    /\ pc = "scanned"
    /\ IF tokRes.tag = "Ok"
       THEN ReduceTo(ReduceBegin(tokRes.line))
       ELSE /\ res' = IF tokRes.tag = "Panic" THEN Panicked ELSE WrapTokenFailure(tokRes)
            /\ pc' = "done"
            /\ UNCHANGED <<text, sc, tokRes, rd, out, aside>>

Reduce == pc = "reduce" /\ ReduceTo(ExprLoop(rd))

Return ==
    /\ pc = "reduced"
    /\ res' = WrapExprResult(ReduceEnd(rd))
    /\ pc' = "done"
    /\ UNCHANGED <<text, sc, tokRes, rd, out, aside>>

\* one turn of `for line in string.split('\n')` of the sample, after the call:
\* println! of the line (Display in a release build, Debug in a debug build),
\* `continue` on TokenFailure(NoTokensPresent), println! of any other error
Println ==
    /\ pc = "done"
    /\ res.tag /= "Panic"
    /\ \E debug_assertions \in BOOLEAN :
          out' = CASE res.tag = "Ok" /\ debug_assertions -> Output("debug", <<>>, NoFailure)
                   [] res.tag = "Ok" /\ ~debug_assertions ->
                         Output("line", ExprLine_fmt(res.line), NoFailure)
                   [] res.tag = "Err" /\ res.err = TokenFailure(NoTokensPresent) ->
                         Output("continue", <<>>, NoFailure)
                   [] OTHER -> Output("error", <<>>, res.err)
    /\ pc' = "printed"
    /\ UNCHANGED <<text, sc, tokRes, rd, res, aside>>

Next == Begin \/ Leading \/ Outer \/ Flush \/ Convert \/ Reduce \/ Return \/ Println

Spec == Init /\ [][Next]_vars

\* the steps compose to the whole calls
StepsAgree ==
    /\ pc \in {"scanned", "reduce", "reduced", "done", "printed"} =>
            \E b \in BOOLEAN : tokRes = TokenLine_try_from(text, b)
    /\ pc \in {"done", "printed"} =>
            \E b \in BOOLEAN : res = ExprLine_try_from(text, b)

(***************************************************************************)
(* render_tokens, the indentation subroutine and main, step by step        *)
(***************************************************************************)
\* no call of ExprLine::try_from is in progress
LineIdle ==
    /\ text = <<>>
    /\ pc = "idle"
    /\ sc = NoScan
    /\ tokRes = Pending
    /\ rd = NoReduce
    /\ res = Pending
    /\ out = NoOutput

RenderInit ==
    /\ LineIdle
    /\ rt \in {RenderBegin(tokens) : tokens \in TokenStreams}
    /\ bl = IndentIdle
    /\ drv = DriverIdle

Render ==
    /\ rt.pc = "loop"
    /\ rt.tokens /= <<>>
    /\ rt' = RenderTurn(rt)
    /\ UNCHANGED <<text, pc, sc, tokRes, rd, res, out, bl, drv>>

RenderReturn ==
    /\ rt.pc = "loop"
    /\ rt.tokens = <<>>
    /\ rt' = RenderEnd(rt)
    /\ UNCHANGED <<text, pc, sc, tokRes, rd, res, out, bl, drv>>

RenderNext == Render \/ RenderReturn

RenderSpec == RenderInit /\ [][RenderNext]_vars

IndentInit ==
    /\ LineIdle
    /\ rt = RenderIdle
    /\ bl \in {IndentBegin(lines) : lines \in BlockInputs}
    /\ drv = DriverIdle

IndentLine ==
    /\ bl.pc = "line"
    /\ bl.lines /= <<>>
    /\ bl' = IndentationSubroutine(bl)
    /\ UNCHANGED <<text, pc, sc, tokRes, rd, res, out, rt, drv>>

\* end of input
IndentEnd ==
    /\ bl.pc = "line"
    /\ bl.lines = <<>>
    /\ bl' = [bl EXCEPT !.pc = "end"]
    /\ UNCHANGED <<text, pc, sc, tokRes, rd, res, out, rt, drv>>

IndentNext == IndentLine \/ IndentEnd

IndentSpec == IndentInit /\ [][IndentNext]_vars

DriverInit ==
    /\ LineIdle
    /\ rt = RenderIdle
    /\ bl = IndentIdle
    /\ drv \in {MainBegin(lines, debug_assertions, overflow_checks) :
                    lines \in Files, debug_assertions \in BOOLEAN,
                    overflow_checks \in BOOLEAN}

\* `let line = ExprLine::try_from(line)`: the call starts
MainCall ==
    /\ drv.pc = "loop"
    /\ drv.lines /= <<>>
    /\ drv' = MainTakes(drv)
    /\ text' = Head(drv.lines)
    /\ pc' = "start"
    /\ UNCHANGED <<sc, tokRes, rd, res, out, rt, bl>>

\* the call is over: `match line`
MainMatch ==
    /\ drv.pc = "call"
    /\ pc = "done"
    /\ drv' = MainMatches(drv, res)
    /\ text' = <<>>
    /\ pc' = "idle"
    /\ sc' = NoScan
    /\ tokRes' = Pending
    /\ rd' = NoReduce
    /\ res' = Pending
    /\ UNCHANGED <<out, rt, bl>>

MainReturn ==
    /\ drv.pc = "loop"
    /\ drv.lines = <<>>
    /\ drv' = MainEnd(drv)
    /\ UNCHANGED <<text, pc, sc, tokRes, rd, res, out, rt, bl>>

DriverNext ==
    \/ MainCall
    \/ Begin \/ Leading \/ Outer \/ Flush \/ Convert \/ Reduce \/ Return
    \/ MainMatch
    \/ MainReturn

DriverSpec == DriverInit /\ [][DriverNext]_vars

(***************************************************************************)
(* Properties of the scanner                                               *)
(***************************************************************************)
\* the scanner as it stands at `match ch` in this iteration of 'outer (the
\* whitespace test before it passed over one character, if it applied)
AtMatch(s) ==
    IF IsWhitespace(s.ch)
    THEN [s EXCEPT !.ch = Head(s.rest), !.rest = Tail(s.rest), !.buf = <<>>,
                   !.raw_tokens = IF s.buf = <<>> THEN s.raw_tokens
                                  ELSE Append(s.raw_tokens, Token_String(s.buf))]
    ELSE s
ReachesMatch(s) == ~IsWhitespace(s.ch) \/ s.rest /= <<>>

\* the pending text, pushed as a String token when there is any
Flushed(s) ==
    IF s.buf = <<>> THEN s.raw_tokens ELSE Append(s.raw_tokens, Token_String(s.buf))

SingleOf(x) ==
    CASE x = "=" -> Token_Equals [] x = "<" -> Token_LeftAngle
      [] x = ">" -> Token_RightAngle [] x = "!" -> Token_Bang
CompositeOf(x) ==
    CASE x = "=" -> Token_Relational("EqualTo")
      [] x = "<" -> Token_Relational("LessThanEqual")
      [] x = ">" -> Token_Relational("GreaterThanEqual")
      [] x = "!" -> Token_Relational("NotEqual")

\* C1: when the scanner dispatches on one of = < > ! and the next character is
\* `=`, the iteration pushes (after the pending text) exactly the one composite
\* token and takes both characters, so that the scanner goes on with the
\* character after the `=`, or ends if there is none; when the operator is the
\* last character, the iteration pushes exactly the single-character token and
\* the loop ends.  A line that is just the operator, or the operator and `=`,
\* scans to that one token.
C1_CompositeOperators ==
    /\ (pc = "outer" /\ ReachesMatch(sc) /\ AtMatch(sc).ch \in CompositeChars) =>
          LET m == AtMatch(sc)
              o == OuterLoop(sc)
          IN  /\ (m.rest /= <<>> /\ Head(m.rest) = "=") =>
                    /\ o.s.raw_tokens = Append(Flushed(m), CompositeOf(m.ch))
                    /\ o.s.buf = <<>>
                    /\ IF Len(m.rest) = 1
                       THEN o.to = "flush" /\ o.s.rest = <<>>
                       ELSE /\ o.to = "outer"
                            /\ o.s.ch = m.rest[2]
                            /\ o.s.rest = SubSeq(m.rest, 3, Len(m.rest))
              /\ m.rest = <<>> =>
                    /\ o.to = "flush"
                    /\ o.s.raw_tokens = Append(Flushed(m), SingleOf(m.ch))
                    /\ o.s.buf = <<>>
    /\ pc = "scanned" =>
          \A x \in CompositeChars :
              /\ text = <<x, "=">> => tokRes = Ok(Line(0, <<CompositeOf(x)>>))
              /\ text = <<x>> => tokRes = Ok(Line(0, <<SingleOf(x)>>))

\* C1 witness: a line was scanned in which a composite token came out of the
\* middle of the line and is followed by another token
C1_Witness ==
    /\ pc = "scanned"
    /\ tokRes.tag = "Ok"
    /\ \E i \in 2..Len(tokRes.line.members) - 1 :
          /\ tokRes.line.members[i] = Token_Relational("GreaterThanEqual")
          /\ tokRes.line.members[i + 1].kind = "String"

\* the tokens of a scan; none when nothing was present
TokensOf(r) == IF r.tag = "Ok" THEN r.line.members ELSE <<>>

\* C2 (as claimed): tokens(X + r) = [single(X)] followed by tokens(r), for X one
\* of = < > ! and any remainder r that starts with neither `=` nor whitespace;
\* an error of r is the error of X + r
C2_LookaheadHandledAsInMainLoop ==
    (/\ pc = "scanned"
     /\ Len(text) >= 2
     /\ text[1] \in CompositeChars
     /\ text[2] /= "="
     /\ ~IsWhitespace(text[2])) =>
        LET r == TokenLine_try_from(Tail(text), FALSE) IN
        IF r.tag = "Ok" \/ r.err = NoTokensPresent
        THEN tokRes.tag = "Ok"
             /\ tokRes.line.members = <<SingleOf(text[1])>> \o TokensOf(r)
        ELSE tokRes = r

(***************************************************************************)
(* Properties of the reducer                                               *)
(***************************************************************************)
\* this iteration of 'expr_loop pushes exactly the expression e, takes the token
\* in hand and the k tokens after it, and goes on with the token after those,
\* or returns when there is none
StepEmits(r, e, k) ==
    LET o == ExprLoop(r) IN
    /\ Len(r.tokens) >= k
    /\ o.s.members = Append(r.members, e)
    /\ o.s.total_whitespace = r.total_whitespace
    /\ IF Len(r.tokens) > k
       THEN /\ o.to = "reduce"
            /\ o.s.token = r.tokens[k + 1]
            /\ o.s.tokens = SubSeq(r.tokens, k + 2, Len(r.tokens))
       ELSE /\ o.to = "reduced"
            /\ o.s.tokens = <<>>

IsString(t) == t.kind = "String"

\* the tokens that finished iterations of 'expr_loop have taken
Consumed ==
    Len(tokRes.line.members) - Len(rd.tokens) - (IF pc = "reduce" THEN 1 ELSE 0)

\* C3 (as claimed): wherever String k, Equals, String v follow one another in
\* the token line, the reducer, once it has taken k, has pushed
\* Attribute{key: k, val: v}
C3_AttributeWhereverTripleOccurs ==
    (pc \in {"reduce", "reduced"}) =>
        LET m == tokRes.line.members IN
        \A i \in 1..Len(m) - 2 :
            (/\ i <= Consumed
             /\ IsString(m[i]) /\ m[i + 1] = Token_Equals /\ IsString(m[i + 2])) =>
                \E j \in 1..Len(rd.members) :
                    rd.members[j] = Expr_Attribute(m[i].s, m[i + 2].s)

\* C3 (amended): when an iteration of the reducer starts on a String token k
\* (the first token of the line, or the token after a finished expression) and
\* Equals and a String token v follow, the iteration pushes exactly
\* Attribute{key: k, val: v} and takes all three tokens; a String that a
\* preceding attribute or trait-tag took as its value or name starts no
\* iteration, and the Equals after it is then rejected.
\* `rect name="container":` reduces to [Raw(rect), Attribute{name, container}, Colon].
C3_AttributeAtExpressionStart ==
    /\ (/\ pc = "reduce"
        /\ IsString(rd.token)
        /\ Len(rd.tokens) >= 2
        /\ rd.tokens[1] = Token_Equals
        /\ IsString(rd.tokens[2])) =>
            StepEmits(rd, Expr_Attribute(rd.token.s, rd.tokens[2].s), 2)
    /\ (pc = "reduce" /\ rd.token = Token_Equals) =>
            /\ ExprLoop(rd).to = "err"
            /\ ExprLoop(rd).err.name = "InvalidToken"
            /\ ExprLoop(rd).err.token = Token_Equals
    /\ (pc = "done" /\ text = Chars("rect name=\"container\":")) =>
            res = Ok(Line(0, <<Expr_Raw(Chars("rect")),
                               Expr_Attribute(Chars("name"), Chars("container")),
                               Expr_Colon>>))

\* C3 witness: a line reduced to expressions among which an attribute follows
\* another expression and is followed by one
C3_Witness ==
    /\ pc = "done"
    /\ res.tag = "Ok"
    /\ \E j \in 2..Len(res.line.members) - 1 : res.line.members[j].kind = "Attribute"

\* C4 (as claimed): a line whose tokens are String src, Period, String trait
\* reduces to the one expression Trait{src, arg: None, trait}, and
\* `me().width - 0\.0 # comment` reduces to
\* [Trait{me(), width}, Arithmetic(Sub), Raw(0.0)] with leading whitespace 0
C4_BareTraitTagFolded ==
    pc = "done" =>
        /\ (/\ tokRes.tag = "Ok"
            /\ Len(tokRes.line.members) = 3
            /\ IsString(tokRes.line.members[1])
            /\ tokRes.line.members[2] = Token_Period
            /\ IsString(tokRes.line.members[3])) =>
                res = Ok(Line(tokRes.line.total_whitespace,
                              <<Expr_Trait(tokRes.line.members[1].s, None,
                                           tokRes.line.members[3].s)>>))
        /\ text = Chars("me().width - 0\\.0 # comment") =>
                res = Ok(Line(0, <<Expr_Trait(Chars("me()"), None, Chars("width")),
                                   Expr_Arithmetic("Sub"),
                                   Expr_Raw(Chars("0.0"))>>))

\* C5: an iteration that starts on Dollar pushes exactly one Trait expression:
\* for `$ src < arg > . trait` Trait{src, Some(arg), trait}, for
\* `$ src < > . trait` Trait{src, Some(""), trait}, for `$ src . trait`
\* Trait{src, None, trait}; it takes the tokens up to the trait name and the
\* reducer goes on with the token after the name as the start of a new expression
C5_SelectorTraitTag ==
    (pc = "reduce" /\ rd.token = Token_Dollar) =>
        LET t == rd.tokens
            n == Len(rd.tokens)
        IN  /\ (/\ n >= 6
                /\ IsString(t[1]) /\ t[2] = Token_LeftAngle /\ IsString(t[3])
                /\ t[4] = Token_RightAngle /\ t[5] = Token_Period /\ IsString(t[6])) =>
                    StepEmits(rd, Expr_Trait(t[1].s, [some |-> TRUE, v |-> t[3].s], t[6].s), 6)
            /\ (/\ n >= 5
                /\ IsString(t[1]) /\ t[2] = Token_LeftAngle
                /\ t[3] = Token_RightAngle /\ t[4] = Token_Period /\ IsString(t[5])) =>
                    StepEmits(rd, Expr_Trait(t[1].s, [some |-> TRUE, v |-> <<>>], t[5].s), 5)
            /\ (/\ n >= 3
                /\ IsString(t[1]) /\ t[2] = Token_Period /\ IsString(t[3])) =>
                    StepEmits(rd, Expr_Trait(t[1].s, [some |-> FALSE, v |-> <<>>], t[3].s), 3)

\* C5 witness: a line reduced to expressions among which a trait-tag with the
\* empty argument is followed by further expressions, the last one a trait-tag
\* without argument
C5_Witness ==
    /\ pc = "done"
    /\ res.tag = "Ok"
    /\ LET m == res.line.members IN
       /\ Len(m) >= 3
       /\ m[1].kind = "Trait" /\ m[1].arg = [some |-> TRUE, v |-> <<>>]
       /\ m[Len(m)].kind = "Trait" /\ m[Len(m)].arg = [some |-> FALSE, v |-> <<>>]

\* the expression a token stands for when no idiom takes it
PassedThrough(t) ==
    CASE t = Token_Colon -> Expr_Colon
      [] t.kind = "Arithmetic" -> Expr_Arithmetic(t.op)
      [] t = Token_Relational("EqualTo") -> Expr_Relational("EqualTo")
      [] t = Token_Relational("LessThanEqual") -> Expr_Relational("LessThanEqual")
      [] t = Token_Relational("GreaterThanEqual") -> Expr_Relational("GreaterThanEqual")
      [] t = Token_Relational("NotEqual") -> Expr_Relational("NotEqual")
      [] t = Token_LeftAngle -> Expr_Relational("LessThan")
      [] t = Token_RightAngle -> Expr_Relational("GreaterThan")

\* C6: an iteration that starts on Colon, an Arithmetic token, a composite
\* Relational token, LeftAngle or RightAngle pushes exactly the one
\* corresponding expression and takes that one token only, so such tokens come
\* out one for one and in order: `[ / * - + % ]` reduces to Arithmetic
\* OpenBracket, Div, Mult, Sub, Add, Mod, CloseBracket and
\* `1 == 2 > 3 >= 4 < 5 <= 6 != 7` to the integers separated by Relational
\* EqualTo, GreaterThan, GreaterThanEqual, LessThan, LessThanEqual, NotEqual
C6_PassThrough ==
    /\ (/\ pc = "reduce"
        /\ rd.token.kind \in {"Colon", "Arithmetic", "Relational", "LeftAngle", "RightAngle"}) =>
            StepEmits(rd, PassedThrough(rd.token), 0)
    /\ (pc = "done" /\ text = Chars("[ / * - + % ]")) =>
            res = Ok(Line(0, <<Expr_Arithmetic("OpenBracket"), Expr_Arithmetic("Div"),
                               Expr_Arithmetic("Mult"), Expr_Arithmetic("Sub"),
                               Expr_Arithmetic("Add"), Expr_Arithmetic("Mod"),
                               Expr_Arithmetic("CloseBracket")>>))
    /\ (pc = "done" /\ text = Chars("1 == 2 > 3 >= 4 < 5 <= 6 != 7")) =>
            res = Ok(Line(0, <<Expr_Int(1), Expr_Relational("EqualTo"),
                               Expr_Int(2), Expr_Relational("GreaterThan"),
                               Expr_Int(3), Expr_Relational("GreaterThanEqual"),
                               Expr_Int(4), Expr_Relational("LessThan"),
                               Expr_Int(5), Expr_Relational("LessThanEqual"),
                               Expr_Int(6), Expr_Relational("NotEqual"),
                               Expr_Int(7)>>))

\* C6 witness: a line reduced to expressions among which LessThanEqual, a lone
\* GreaterThan and a Colon each stand next to other expressions
C6_Witness ==
    /\ pc = "done"
    /\ res.tag = "Ok"
    /\ \E i, j \in 1..Len(res.line.members) :
          /\ i < j
          /\ res.line.members[i] = Expr_Relational("GreaterThan")
          /\ res.line.members[j] = Expr_Relational("LessThanEqual")

RECURSIVE DecimalValue(_)
\* the number a run of decimal digits denotes
DecimalValue(d) ==
    IF Len(d) = 0 THEN 0
    ELSE 10 * DecimalValue(SubSeq(d, 1, Len(d) - 1)) + DigitValue(d[Len(d)])

\* the digits of a payload: an optional leading `+` is part of the syntax of an
\* unsigned integer
Unsigned(s) == IF Len(s) > 0 /\ Head(s) = PLUS THEN Tail(s) ELSE s

DenotesU16(s) ==
    /\ Len(Unsigned(s)) > 0
    /\ \A i \in 1..Len(Unsigned(s)) : IsDigit(Unsigned(s)[i])
    /\ DecimalValue(Unsigned(s)) <= 65535

\* C7: an iteration that starts on a String token which no Equals follows
\* pushes Int(n) exactly when the payload denotes an unsigned integer n of at
\* most 65535, and Raw(payload) otherwise, also when the payload denotes 65536
\* or more; it takes that one token only
C7_IntOrRaw ==
    (/\ pc = "reduce"
     /\ IsString(rd.token)
     /\ (Len(rd.tokens) = 0 \/ rd.tokens[1] /= Token_Equals)) =>
        StepEmits(rd,
                  IF DenotesU16(rd.token.s)
                  THEN Expr_Int(DecimalValue(Unsigned(rd.token.s)))
                  ELSE Expr_Raw(rd.token.s),
                  0)

\* C7 witness: the line `65536` was reduced and came out as Raw
C7_Witness ==
    /\ pc = "done"
    /\ text = Chars("65536")
    /\ res = Ok(Line(0, <<Expr_Raw(Chars("65536"))>>))

\* C8 (as claimed): a line that is one quoted literal, whose content holds
\* neither a quote nor a backslash, reduces to Raw(content), whatever the content
C8_QuotedLiteralIsRaw ==
    (/\ pc = "done"
     /\ Len(text) >= 3
     /\ text[1] \in {SINGLE_QUOTE, DOUBLE_QUOTE}
     /\ text[Len(text)] = text[1]
     /\ \A i \in 2..Len(text) - 1 :
            text[i] \notin {SINGLE_QUOTE, DOUBLE_QUOTE, BACKSLASH}) =>
        res = Ok(Line(0, <<Expr_Raw(SubSeq(text, 2, Len(text) - 1))>>))

\* a line of whitespace only, or of whitespace and then a comment
OnlyWhitespaceAndComment(t) ==
    \E k \in 0..Len(t) :
        /\ \A i \in 1..k : IsWhitespace(t[i])
        /\ k < Len(t) => t[k + 1] = COMMENT

\* C9 (as claimed): a line that consists of whitespace and/or a comment only,
\* the whitespace before the `#` being of any kind, fails with
\* TokenFailure(NoTokensPresent) and with no other error
C9_NoTokensPresent ==
    (pc = "done" /\ OnlyWhitespaceAndComment(text)) =>
        res = Err(TokenFailure(NoTokensPresent))

\* C10 (as claimed): for a text t without quote and backslash, scanning
\* t + "#" + c gives the result of scanning t
C10_CommentDiscarded ==
    pc = "scanned" =>
        \A k \in 1..Len(text) :
            (/\ text[k] = COMMENT
             /\ \A i \in 1..k - 1 :
                    text[i] \notin {SINGLE_QUOTE, DOUBLE_QUOTE, BACKSLASH}) =>
                tokRes = TokenLine_try_from(SubSeq(text, 1, k - 1), FALSE)

\* runs of at most two spaces and tabs
WhitespaceRuns == SeqsUpTo({SPACE, TAB}, 2)

\* C11: for the text t that was scanned and every run w of spaces and tabs,
\* scanning t + w returns what scanning t returned: the same count and tokens,
\* or the same error (in either build)
C11_TrailingWhitespace ==
    pc = "scanned" =>
        /\ \E b \in BOOLEAN : tokRes = TokenLine_try_from(text, b)
        /\ \A w \in WhitespaceRuns, b \in BOOLEAN :
              TokenLine_try_from(text \o w, b) = TokenLine_try_from(text, b)

\* C11 witness: a text that ends in whitespace was scanned to tokens
C11_Witness ==
    /\ pc = "scanned"
    /\ Len(text) > 1
    /\ IsWhitespace(text[Len(text)])
    /\ tokRes.tag = "Ok"

\* C12 (as claimed): in a text without quote and backslash no whitespace
\* character becomes part of a token payload, whatever the length of the run it
\* stands in; `a  b` scans to the tokens of `a b`, and `1  2` reduces to
\* [Int(1), Int(2)]
C12_WhitespaceOnlySeparates ==
    /\ (/\ pc = "scanned"
        /\ tokRes.tag = "Ok"
        /\ \A i \in 1..Len(text) :
              text[i] \notin {SINGLE_QUOTE, DOUBLE_QUOTE, BACKSLASH}) =>
            \A j \in 1..Len(tokRes.line.members) :
                \A k \in 1..Len(tokRes.line.members[j].s) :
                    ~IsWhitespace(tokRes.line.members[j].s[k])
    /\ (pc = "scanned" /\ text = Chars("a  b")) =>
            tokRes = Ok(Line(0, <<Token_String(<<"a">>), Token_String(<<"b">>)>>))
    /\ (pc = "done" /\ text = Chars("1  2")) =>
            res = Ok(Line(0, <<Expr_Int(1), Expr_Int(2)>>))

RECURSIVE IsEscaped(_, _)
\* the character at i stands directly after a backslash that is not itself escaped
IsEscaped(t, i) == i > 1 /\ t[i - 1] = BACKSLASH /\ ~IsEscaped(t, i - 1)

\* the places of t where the delimiter occurs unescaped
Closings(t, quote) == {p \in 1..Len(t) : t[p] = quote /\ ~IsEscaped(t, p)}
FirstClosing(t, quote) ==
    CHOOSE p \in Closings(t, quote) : \A q \in Closings(t, quote) : p <= q

RECURSIVE Unescape(_, _)
\* the first n characters of t without the backslashes that escape something
Unescape(t, n) ==
    IF n = 0 THEN <<>>
    ELSE IF t[n] = BACKSLASH /\ ~IsEscaped(t, n) THEN Unescape(t, n - 1)
    ELSE Append(Unescape(t, n - 1), t[n])

\* C13: when the scanner dispatches on `'` or `"` and the same delimiter occurs
\* unescaped later in the line, the iteration pushes no token and appends to the
\* pending text exactly the characters up to the first such occurrence, each
\* taken as it stands (whitespace, `#`, the other quote, operators) except that
\* a backslash gives the character after it and not itself; the scanner goes
\* on with the character after the closing delimiter
C13_StringLiteral ==
    (/\ pc = "outer"
     /\ ReachesMatch(sc)
     /\ AtMatch(sc).ch \in {SINGLE_QUOTE, DOUBLE_QUOTE}
     /\ Closings(AtMatch(sc).rest, AtMatch(sc).ch) /= {}) =>
        LET m == AtMatch(sc)
            p == FirstClosing(m.rest, m.ch)
            o == OuterLoop(sc)
        IN  /\ o.s.raw_tokens = m.raw_tokens
            /\ o.s.buf = m.buf \o Unescape(m.rest, p - 1)
            /\ IF p = Len(m.rest)
               THEN o.to = "flush"
               ELSE /\ o.to = "outer"
                    /\ o.s.ch = m.rest[p + 1]
                    /\ o.s.rest = SubSeq(m.rest, p + 2, Len(m.rest))

\* C13 witness: literals were scanned whose payload is the escaped delimiter
\* itself, or `#` and the other quote
C13_Witness ==
    /\ pc = "scanned"
    /\ Len(text) > 2
    /\ text[1] = SINGLE_QUOTE
    /\ \/ tokRes = Ok(Line(0, <<Token_String(<<SINGLE_QUOTE>>)>>))
       \/ tokRes = Ok(Line(0, <<Token_String(<<COMMENT, DOUBLE_QUOTE>>)>>))

RECURSIVE Requires(_, _, _)
\* what the line t, read from i on outside (mode "") or inside a literal (mode
\* its delimiter), still requires where it ends; "" when nothing
Requires(t, i, mode) ==
    IF i > Len(t) THEN (IF mode = "" THEN "" ELSE "closing quote")
    ELSE IF t[i] = BACKSLASH
    THEN (IF i = Len(t) THEN "char after backslash" ELSE Requires(t, i + 2, mode))
    ELSE IF mode = ""
    THEN (IF t[i] = COMMENT THEN ""
          ELSE IF t[i] \in {SINGLE_QUOTE, DOUBLE_QUOTE} THEN Requires(t, i + 1, t[i])
          ELSE Requires(t, i + 1, ""))
    ELSE Requires(t, i + 1, IF t[i] = mode THEN "" ELSE mode)

\* C14 (as claimed): a line without leading and trailing whitespace that ends
\* inside a literal, or in a backslash with no character after it, fails with
\* UnexpectedEol naming what was expected
C14_UnexpectedEol ==
    (/\ pc = "scanned"
     /\ Len(text) > 0
     /\ ~IsWhitespace(text[1])
     /\ ~IsWhitespace(text[Len(text)])
     /\ Requires(text, 1, "") /= "") =>
        tokRes = Err(UnexpectedEol(Requires(text, 1, "")))

\* the length of the run of whitespace that t starts with
LeadingRun(t) ==
    IF \A i \in 1..Len(t) : IsWhitespace(t[i]) THEN Len(t)
    ELSE (CHOOSE k \in 1..Len(t) :
              ~IsWhitespace(t[k]) /\ \A i \in 1..k - 1 : IsWhitespace(t[i])) - 1

\* C15: when something other than whitespace follows the leading run of
\* whitespace, scanning fails with InconsistentWhitespace if the run holds two
\* different characters, and does not fail with InconsistentWhitespace if the
\* run is of one character throughout (or empty)
C15_InconsistentWhitespace ==
    (pc = "scanned" /\ LeadingRun(text) < Len(text)) =>
        IF \E i, j \in 1..LeadingRun(text) : text[i] /= text[j]
        THEN tokRes = Err(InconsistentWhitespace)
        ELSE tokRes /= Err(InconsistentWhitespace)

\* C15 witness: a line with content was refused for a tab followed by a space
C15_Witness ==
    /\ pc = "scanned"
    /\ Len(text) > 2
    /\ text[1] = TAB /\ text[2] = SPACE
    /\ LeadingRun(text) < Len(text)
    /\ tokRes = Err(InconsistentWhitespace)

\* C16 (as claimed): the count of a scanned line is the length of its leading
\* run of whitespace, for runs of every length, and the reducer returns the
\* same count
C16_LeadingWhitespaceCount ==
    /\ (pc = "scanned" /\ tokRes.tag = "Ok") =>
            tokRes.line.total_whitespace = LeadingRun(text)
    /\ (pc = "done" /\ res.tag = "Ok") =>
            res.line.total_whitespace = LeadingRun(text)

\* C17: an iteration of the reducer that starts on Equals or Period fails with
\* InvalidToken carrying that token and the message "Incorrect token to start
\* expression", one that starts on Bang fails with ToDo carrying the Bang; the
\* call then returns the error, wrapped as ExprFailure, and no expressions
C17_IncorrectStartToken ==
    /\ (pc = "reduce" /\ rd.token \in {Token_Equals, Token_Period}) =>
          /\ ExprLoop(rd).to = "err"
          /\ ExprLoop(rd).err =
                InvalidToken(rd.token, "Incorrect token to start expression")
          /\ WrapExprResult(RunReduce(ExprLoop(rd))) =
                Result("Err", Line(0, <<>>),
                       [wrap |-> "ExprFailure", name |-> "InvalidToken",
                        token |-> rd.token,
                        msg |-> "Incorrect token to start expression"])
    /\ (pc = "reduce" /\ rd.token = Token_Bang) =>
          /\ ExprLoop(rd).to = "err"
          /\ ExprLoop(rd).err = ToDo(Token_Bang)
          /\ WrapExprResult(RunReduce(ExprLoop(rd))) =
                Result("Err", Line(0, <<>>),
                       [wrap |-> "ExprFailure", name |-> "ToDo",
                        token |-> Token_Bang, msg |-> ""])
    /\ (pc = "done" /\ res.tag = "Err") => res.line.members = <<>>

\* C17 witness: a Bang, and a Period, directly after a completed expression
\* made the call fail
C17_Witness ==
    /\ pc = "done"
    /\ Len(rd.members) > 0
    /\ \/ res = Err(ExprFailure(ToDo(Token_Bang)))
       \/ res = Err(ExprFailure(InvalidToken(Token_Period,
                                             "Incorrect token to start expression")))

\* C18: an iteration that starts on a String token followed by Equals fails
\* with UnexpectedLastToken when no token follows the Equals, and with
\* InvalidToken "expected string after equals sign" carrying the token that
\* follows when that is not a String; a line with a Period token that no String
\* token follows is never reduced to expressions, as `me(). // ...` is not
C18_IncompleteIdiom ==
    /\ (/\ pc = "reduce"
        /\ IsString(rd.token)
        /\ rd.tokens = <<Token_Equals>>) =>
            /\ ExprLoop(rd).to = "err"
            /\ ExprLoop(rd).err.name = "UnexpectedLastToken"
            /\ ExprLoop(rd).err.token = rd.token
    /\ (/\ pc = "reduce"
        /\ IsString(rd.token)
        /\ Len(rd.tokens) >= 2
        /\ rd.tokens[1] = Token_Equals
        /\ ~IsString(rd.tokens[2])) =>
            /\ ExprLoop(rd).to = "err"
            /\ ExprLoop(rd).err =
                  InvalidToken(rd.tokens[2], "expected string after equals sign")
    /\ (/\ pc = "done"
        /\ tokRes.tag = "Ok"
        /\ \E i \in 1..Len(tokRes.line.members) :
              /\ tokRes.line.members[i] = Token_Period
              /\ i < Len(tokRes.line.members) => ~IsString(tokRes.line.members[i + 1])) =>
            res.tag = "Err" /\ res.err.wrap = "ExprFailure"
    /\ (pc = "done"
        /\ text = Chars("me(). // This line should have a syntax error.")) =>
            res.tag = "Err"

\* C18 witness: a line that ends in `key =` was refused with UnexpectedLastToken,
\* after the reducer had completed an expression before it
C18_Witness ==
    /\ pc = "done"
    /\ Len(rd.members) > 0
    /\ res.tag = "Err"
    /\ res.err.name = "UnexpectedLastToken"
    /\ res.err.token.kind = "String"

\* C19: the reducer runs only on the line of a successful scan; when the call
\* has returned, a scanner error e has come back as TokenFailure(e) and the
\* reducer has not run, a reducer error e has come back as ExprFailure(e), and
\* a line has come back only when scanner and reducer both succeeded, and it
\* is the reducer's line
C19_ExtractLineWrapping ==
    /\ pc \in {"reduce", "reduced"} => tokRes.tag = "Ok"
    /\ (pc = "done" /\ tokRes.tag = "Err") =>
          /\ res = Result("Err", Line(0, <<>>), [tokRes.err EXCEPT !.wrap = "TokenFailure"])
          /\ rd = NoReduce
    /\ (pc = "done" /\ tokRes.tag = "Ok") =>
          LET r == ExprLine_try_from_tokens(tokRes.line) IN
          IF r.tag = "Err"
          THEN res = Result("Err", Line(0, <<>>), [r.err EXCEPT !.wrap = "ExprFailure"])
          ELSE res = r
    /\ (pc = "done" /\ res.tag = "Ok") =>
          /\ tokRes.tag = "Ok"
          /\ ExprLine_try_from_tokens(tokRes.line) = res

\* C19 witness: the call returned a scanner error that is not NoTokensPresent,
\* wrapped as TokenFailure
C19_Witness ==
    /\ pc = "done"
    /\ tokRes = Err(UnexpectedEol("closing quote"))
    /\ res.tag = "Err"
    /\ res.err.wrap = "TokenFailure"
    /\ res.err.name = "UnexpectedEol"

\* C20 (as claimed): the display of a scanned token line scans again to the
\* same token line, and the line that the driver printed for a reduced line
\* scans and reduces again to the same line of expressions
C20_RenderThenScan ==
    /\ (pc = "scanned" /\ tokRes.tag = "Ok") =>
            TokenLine_try_from(TokenLine_fmt(tokRes.line), FALSE) = tokRes
    /\ (pc = "printed" /\ out.kind = "line") =>
            ExprLine_try_from(out.text, FALSE) = res

\* does `part` occur in `whole` as a contiguous run
IsInfix(part, whole) ==
    \E i \in 0..(Len(whole) - Len(part)) : SubSeq(whole, i + 1, i + Len(part)) = part

\* the tokens render_tokens hands to Display (all but a NewLine and the
\* Indent/Dedent run behind it)
RECURSIVE Displayed(_)
Displayed(tokens) ==
    IF tokens = <<>> THEN <<>>
    ELSE IF Head(tokens) = Lexing_Op("NewLine")
         THEN LET rest == Tail(tokens)
                  indents == NextIfRun(rest, Lexing_Indent)
                  afterIndents == SubSeq(rest, indents + 1, Len(rest))
                  dedents == NextIfRun(afterIndents, Lexing_Dedent)
              IN  Displayed(SubSeq(afterIndents, dedents + 1, Len(afterIndents)))
         ELSE <<Head(tokens)>> \o Displayed(Tail(tokens))

\* C21: when render_tokens has returned, nothing was sent to standard output
\* and the text of every token it displayed is in what the writer recorded
C21_WriterRecordsEveryToken ==
    rt.pc = "returned" =>
        /\ rt.stdout = <<>>
        /\ \A i \in 1..Len(Displayed(rt.stream)) :
              IsInfix(Lexing_Token_fmt(Displayed(rt.stream)[i]), rt.buf)

\* how many of the tokens of `tokens` are `t`
CountOf(tokens, t) == Cardinality({i \in 1..Len(tokens) : tokens[i] = t})

\* C22: on an accepted input the Indent tokens emitted so far are never fewer
\* than the Dedent tokens, and at the end of the input they are as many
C22_IndentDedentBalanced ==
    bl.pc \in {"line", "end"} =>
        /\ CountOf(bl.emitted, Lexing_Indent) >= CountOf(bl.emitted, Lexing_Dedent)
        /\ bl.pc = "end" =>
              CountOf(bl.emitted, Lexing_Indent) = CountOf(bl.emitted, Lexing_Dedent)

\* the call failed with TokenFailure(NoTokensPresent)
IsNoTokensPresent(line) == line.tag = "Err" /\ line.err = TokenFailure(NoTokensPresent)

\* the results that are to be reported, in the order of their lines
Reported(results) == SelectSeq(results, LAMBDA line : ~IsNoTokensPresent(line))

\* C23: standard output holds exactly one line per line of the file whose
\* conversion did not fail with TokenFailure(NoTokensPresent), in file order:
\* an ERROR line with the failure for a failure, the line for a success
C23_NoTokensPresentIsSkipped ==
    LET reported == Reported(drv.results)
    IN  /\ Len(drv.stdout) = Len(reported)
        /\ \A i \in 1..Len(reported) :
              IF reported[i].tag = "Ok"
              THEN drv.stdout[i].kind \in {"line", "debug"}
              ELSE drv.stdout[i] = Output("error", <<>>, reported[i].err)

\* a file with a skipped line, a failing line and a successful line was read
C23_Witness ==
    /\ drv.pc = "returned"
    /\ Len(drv.results) = 3
    /\ IsNoTokensPresent(drv.results[1])
    /\ drv.results[2].tag = "Err" /\ ~IsNoTokensPresent(drv.results[2])
    /\ drv.results[3].tag = "Ok"
    /\ Len(drv.stdout) = 2
    /\ drv.stdout[1].kind = "error"
    /\ drv.stdout[2].kind = "line"

\* C24: a Line returned by TokenLine::try_from(&str) or ExprLine::try_from(&str)
\* has at least one member; a scan that ends without a token returns
\* NoTokensPresent
C24_NoEmptyLine ==
    /\ tokRes.tag = "Ok" => Len(tokRes.line.members) > 0
    /\ res.tag = "Ok" => Len(res.line.members) > 0
    /\ (pc = "flush" /\ FlushBuf(sc, <<>>).raw_tokens = <<>>) =>
            ScanEnd(sc) = Err(NoTokensPresent)

\* a line of three tokens was reduced to a line of one expression
C24_Witness ==
    /\ pc = "done"
    /\ res.tag = "Ok"
    /\ Len(tokRes.line.members) = 3
    /\ Len(res.line.members) = 1

(***************************************************************************)
(* Properties of the reducer's failures and of its use of the tokens       *)
(***************************************************************************)
\* the kinds of the token in hand and of all the tokens behind it
KindsLeft(r) == <<r.token.kind>> \o [i \in 1..Len(r.tokens) |-> r.tokens[i].kind]

\* the beginnings of an idiom that are not yet a whole idiom: `key =`, `$`,
\* `$src`, `$src<`, `$src<arg`, `$src<arg>`, `$src<>`, and each selector up
\* to the period before the trait name
IdiomPrefixes ==
    {<<"String", "Equals">>,
     <<"Dollar">>,
     <<"Dollar", "String">>,
     <<"Dollar", "String", "LeftAngle">>,
     <<"Dollar", "String", "LeftAngle", "String">>,
     <<"Dollar", "String", "LeftAngle", "String", "RightAngle">>,
     <<"Dollar", "String", "LeftAngle", "RightAngle">>,
     <<"Dollar", "String", "Period">>,
     <<"Dollar", "String", "LeftAngle", "String", "RightAngle", "Period">>,
     <<"Dollar", "String", "LeftAngle", "RightAngle", "Period">>}

\* the token stream ends in the middle of the idiom the token in hand starts
EndsMidIdiom(r) == KindsLeft(r) \in IdiomPrefixes

\* C25: an iteration of the reducer that finds the stream ended in the middle
\* of an idiom fails with UnexpectedLastToken, never with InvalidToken
C25_EndOfStreamIsUnexpectedLastToken ==
    (pc = "reduce" /\ EndsMidIdiom(rd)) =>
        /\ ExprLoop(rd).to = "err"
        /\ ExprLoop(rd).err.name = "UnexpectedLastToken"

\* the number of tokens an expression stands for
Taken(e) ==
    CASE e.kind = "Attribute" -> 3
      [] e.kind = "Trait" /\ ~e.arg.some -> 4
      [] e.kind = "Trait" /\ e.arg.some /\ e.arg.v = <<>> -> 6
      [] e.kind = "Trait" /\ e.arg.some /\ e.arg.v /= <<>> -> 7
      [] OTHER -> 1

\* the expression e stands for exactly the tokens seg, in this order
StandsFor(e, seg) ==
    CASE e.kind = "Attribute" -> seg = <<Token_String(e.a), Token_Equals, Token_String(e.b)>>
      [] e.kind = "Trait" /\ ~e.arg.some ->
            seg = <<Token_Dollar, Token_String(e.a), Token_Period, Token_String(e.b)>>
      [] e.kind = "Trait" /\ e.arg.some /\ e.arg.v = <<>> ->
            seg = <<Token_Dollar, Token_String(e.a), Token_LeftAngle, Token_RightAngle,
                    Token_Period, Token_String(e.b)>>
      [] e.kind = "Trait" /\ e.arg.some /\ e.arg.v /= <<>> ->
            seg = <<Token_Dollar, Token_String(e.a), Token_LeftAngle,
                    Token_String(e.arg.v), Token_RightAngle, Token_Period,
                    Token_String(e.b)>>
      [] e.kind = "Int" ->
            /\ Len(seg) = 1 /\ IsString(seg[1])
            /\ DenotesU16(seg[1].s) /\ DecimalValue(Unsigned(seg[1].s)) = e.n
      [] e.kind = "Raw" -> seg = <<Token_String(e.a)>> /\ ~DenotesU16(e.a)
      [] e.kind = "Colon" -> seg = <<Token_Colon>>
      [] e.kind = "Arithmetic" -> seg = <<Token_Arithmetic(e.op)>>
      [] e.kind = "Relational" ->
            seg = <<CASE e.op = "LessThan" -> Token_LeftAngle
                      [] e.op = "GreaterThan" -> Token_RightAngle
                      [] OTHER -> Token_Relational(e.op)>>

\* the number of tokens the first j expressions stand for
RECURSIVE TakenBy(_, _)
TakenBy(members, j) == IF j = 0 THEN 0 ELSE TakenBy(members, j - 1) + Taken(members[j])

\* C26: an iteration on a String that no Equals follows pushes Int/Raw for
\* the String and goes on with the very next token in hand; and the
\* expressions pushed so far stand, one after the other and in order, for
\* exactly the tokens taken so far, each token under exactly one expression
C26_EachTokenUnderOneExpression ==
    /\ (pc = "reduce" /\ IsString(rd.token) /\ rd.tokens /= <<>>
            /\ rd.tokens[1] /= Token_Equals) =>
                /\ StepEmits(rd, IntOrRaw(rd.token.s), 0)
                /\ ExprLoop(rd).s.token = rd.tokens[1]
    /\ (pc \in {"reduce", "reduced"}) =>
            LET m == tokRes.line.members IN
            /\ TakenBy(rd.members, Len(rd.members)) = Consumed
            /\ Len(rd.members) <= Consumed
            /\ \A j \in 1..Len(rd.members) :
                  StandsFor(rd.members[j],
                            SubSeq(m, TakenBy(rd.members, j - 1) + 1, TakenBy(rd.members, j)))
    /\ (pc = "done" /\ res.tag = "Ok") =>
            /\ TakenBy(res.line.members, Len(res.line.members)) = Len(tokRes.line.members)
            /\ Len(res.line.members) <= Len(tokRes.line.members)

\* a String was pushed as Raw with an operator behind it, and that operator
\* became the next expression
C26_Witness ==
    /\ pc = "done"
    /\ res.tag = "Ok"
    /\ Len(tokRes.line.members) >= 2
    /\ IsString(tokRes.line.members[1])
    /\ tokRes.line.members[2].kind = "Relational"
    /\ Len(res.line.members) = Len(tokRes.line.members)
    /\ res.line.members[1].kind = "Raw"
    /\ res.line.members[2].kind = "Relational"

(***************************************************************************)
(* Termination                                                             *)
(***************************************************************************)
\* an iteration of a loop of the scanner that is followed by another one has
\* read at least one character, and one of the reducer at least one token
LoopsAdvance ==
    /\ (pc = "leading" /\ \E b \in BOOLEAN : LeadingWhitespace(sc, b).to = "leading") =>
            \A b \in BOOLEAN :
                LeadingWhitespace(sc, b).to = "leading" =>
                    Len(LeadingWhitespace(sc, b).s.rest) < Len(sc.rest)
    /\ (pc = "outer" /\ OuterLoop(sc).to = "outer") =>
            Len(OuterLoop(sc).s.rest) < Len(sc.rest)
    /\ (pc = "reduce" /\ ExprLoop(rd).to = "reduce") =>
            Len(ExprLoop(rd).s.tokens) < Len(rd.tokens)

\* the call is at a position from which it returns or takes a step, and the
\* step in turn leaves it at such a position
CallGoesOn ==
    /\ pc \in {"start", "leading", "outer", "flush", "scanned", "reduce", "reduced",
               "done", "printed"}
    /\ pc = "start" => ScanBegin(text).to \in {"leading", "err"}
    /\ pc = "leading" =>
            \A b \in BOOLEAN :
                LeadingWhitespace(sc, b).to \in {"leading", "outer", "err", "panic"}
    /\ pc = "outer" => OuterLoop(sc).to \in {"outer", "flush", "err"}
    /\ (pc = "scanned" /\ tokRes.tag = "Ok") =>
            ReduceBegin(tokRes.line).to \in {"reduce", "reduced"}
    /\ pc = "reduce" => ExprLoop(rd).to \in {"reduce", "reduced", "err"}

\* C27: the loops advance, the call never stops before its return, neither
\* stage aborts, and what is returned is a line or a failure value
C27_TerminatesWithLineOrFailure ==
    /\ LoopsAdvance
    /\ CallGoesOn
    /\ tokRes.tag /= "Panic"
    /\ pc \in {"done", "printed"} => res.tag \in {"Ok", "Err"}

(***************************************************************************)
(* Properties of the sample's main                                         *)
(***************************************************************************)
\* what main writes for these results, one after the other
RECURSIVE PrintedFor(_, _)
PrintedFor(results, debug_assertions) ==
    IF results = <<>> THEN <<>>
    ELSE MainPrints(Head(results), debug_assertions)
         \o PrintedFor(Tail(results), debug_assertions)

\* every line taken so far has its result, but the one whose call is running
EveryLineProcessed ==
    /\ Len(drv.results) = Len(drv.read) - (IF drv.pc = "call" THEN 1 ELSE 0)
    /\ drv.pc = "returned" => drv.lines = <<>>

\* the result for a line is what the call returns for its text alone, so equal
\* lines have equal results wherever they stand in the file
ResultsDependOnLineOnly ==
    /\ \A i \in 1..Len(drv.results) :
          Len(drv.read[i]) <= MaxFile + 2 =>
              drv.results[i] = ExprLine_try_from(drv.read[i], drv.overflow_checks)
    /\ \A i, j \in 1..Len(drv.results) :
          drv.read[i] = drv.read[j] => drv.results[i] = drv.results[j]

\* standard output is what was written for the lines, in the order of the lines
OutputsInLineOrder == drv.stdout = PrintedFor(drv.results, drv.debug_assertions)

\* C28: the run never stops before the end of the file, every line taken is
\* processed, its result depends on its text only, and the outputs stand in
\* the order of the lines
C28_DriverProcessesEveryLine ==
    /\ drv.pc \in {"loop", "call", "returned"}
    /\ EveryLineProcessed
    /\ ResultsDependOnLineOnly
    /\ OutputsInLineOrder

(***************************************************************************)
(* Properties of the text buffer                                           *)
(***************************************************************************)
\* no String token of these has an empty payload
NoEmptyString(tokens) == \A i \in 1..Len(tokens) : IsString(tokens[i]) => Len(tokens[i].s) > 0

\* C29: the scanner never holds or returns a String token with an empty
\* payload; an iteration on an empty quoted literal leaves the tokens and the
\* buffer as they were; `key=""` scans to [String(key), Equals] and its
\* reduction fails with UnexpectedLastToken
C29_NoEmptyStringToken ==
    /\ NoEmptyString(sc.raw_tokens)
    /\ tokRes.tag = "Ok" => NoEmptyString(tokRes.line.members)
    /\ (pc = "outer" /\ sc.ch \in {SINGLE_QUOTE, DOUBLE_QUOTE} /\ HasNext(sc)
            /\ Head(sc.rest) = sc.ch) =>
                /\ OuterLoop(sc).to \in {"outer", "flush"}
                /\ OuterLoop(sc).s.raw_tokens = sc.raw_tokens
                /\ OuterLoop(sc).s.buf = sc.buf
    /\ (text = Chars("key=\"\"") /\ pc \in {"scanned", "reduce", "reduced", "done"}) =>
            tokRes = Ok(Line(0, <<Token_String(Chars("key")), Token_Equals>>))
    /\ (text = Chars("key=\"\"") /\ pc = "done") =>
            /\ res.tag = "Err"
            /\ res.err.wrap = "ExprFailure"
            /\ res.err.name = "UnexpectedLastToken"
            /\ res.err.token = Token_String(Chars("key"))

\* the call on `key=""` has returned
C29_Witness ==
    /\ text = Chars("key=\"\"")
    /\ pc = "done"
    /\ Len(tokRes.line.members) = 2
    /\ res.tag = "Err"

\* how many String tokens these are
Strings(tokens) == Cardinality({i \in 1..Len(tokens) : IsString(tokens[i])})

\* the characters that are, or begin, an operator token
OperatorChars == DOMAIN SingleCharToken \cup {EQUALS_SIGN, LEFT_ANGLE, RIGHT_ANGLE, BANG}

\* C30: an iteration on a quoted literal pushes no token and leaves the text
\* pending before it at the head of the buffer; an iteration pushes a String
\* token only when it is on whitespace or on an operator character; and
\* `a"b c"d` and `"a"'b'` scan to the single tokens String("ab cd") and
\* String("ab")
C30_QuotesDoNotDelimit ==
    /\ (pc = "outer" /\ sc.ch \in {SINGLE_QUOTE, DOUBLE_QUOTE}
            /\ OuterLoop(sc).to /= "err") =>
                /\ OuterLoop(sc).s.raw_tokens = sc.raw_tokens
                /\ Len(OuterLoop(sc).s.buf) >= Len(sc.buf)
                /\ SubSeq(OuterLoop(sc).s.buf, 1, Len(sc.buf)) = sc.buf
    /\ (pc = "outer" /\ Strings(OuterLoop(sc).s.raw_tokens) > Strings(sc.raw_tokens)) =>
            IsWhitespace(sc.ch) \/ sc.ch \in OperatorChars
    /\ (text = Chars("a\"b c\"d") /\ pc = "scanned") =>
            tokRes = Ok(Line(0, <<Token_String(Chars("ab cd"))>>))
    /\ (text = Chars("\"a\"'b'") /\ pc = "scanned") =>
            tokRes = Ok(Line(0, <<Token_String(Chars("ab"))>>))

\* the scan of `"a"'b'` has returned
C30_Witness ==
    /\ text = Chars("\"a\"'b'")
    /\ pc = "scanned"
    /\ tokRes.tag = "Ok"
    /\ Len(tokRes.line.members) = 1

====
